---- MODULE Spec2Model ----
(***************************************************************************)
(* A model of src/bot.py (Norah Ops bot): the business calendar and period *)
(* arithmetic, the pending-input maps, and the handlers that store daily   *)
(* records and notes.                                                      *)
(*                                                                         *)
(* Dates are records [year, month, day] as datetime.date; a date the       *)
(* library refuses to build is ErrDate, and the operators that the code    *)
(* calls propagate it the way the raised exception would leave the caller. *)
(***************************************************************************)
EXTENDS Integers, Sequences, FiniteSets, TLC

(***************************************************************************)
(* Bounds of the model.                                                    *)
(***************************************************************************)
\* Longest period token (characters) passed to parse_period_arg.
MaxTokLen == 3
\* Largest month offset (either sign) handed to add_months directly.
MaxShift == 14
\* Most rows the notes_entries table holds.
MaxNotes == 2
\* Hours the clock advances.
MaxTicks == 1
\* Longest numeric literal (characters) handed to _num directly.
MaxLitLen == 4
\* Most filler lines between a section heading and its sub-fields.
MaxFiller == 9
\* Most words of a note handed to tokenize.
MaxWords == 2

(***************************************************************************)
(* datetime.date / datetime.timedelta as the code uses them.               *)
(***************************************************************************)
Date(y, m, d) == [year |-> y, month |-> m, day |-> d]

\* The value standing for "the call raised": no date was produced.
ErrDate == [year |-> 0, month |-> 0, day |-> 0]

IsLeap(y) == (y % 4 = 0) /\ ((y % 100 # 0) \/ (y % 400 = 0))

DaysInMonth(y, m) ==
    CASE m \in {1, 3, 5, 7, 8, 10, 12} -> 31
      [] m \in {4, 6, 9, 11} -> 30
      [] OTHER -> IF IsLeap(y) THEN 29 ELSE 28

\* Number of days before January 1st of year y (proleptic Gregorian).
DaysBeforeYear(y) ==
    LET p == y - 1 IN p * 365 + (p \div 4) - (p \div 100) + (p \div 400)

RECURSIVE DaysBeforeMonth(_, _)
DaysBeforeMonth(y, m) ==
    IF m <= 1 THEN 0 ELSE DaysBeforeMonth(y, m - 1) + DaysInMonth(y, m - 1)

\* date(y, m, d): ValueError unless 1 <= y <= 9999 and the day exists.
date_new(y, m, d) ==
    IF y >= 1 /\ y <= 9999 /\ m >= 1 /\ m <= 12 /\ d >= 1 /\ d <= DaysInMonth(y, m)
    THEN Date(y, m, d)
    ELSE ErrDate

toordinal(d) == DaysBeforeYear(d.year) + DaysBeforeMonth(d.year, d.month) + d.day

\* date.fromordinal, by the library's 400/100/4/1-year cycle arithmetic.
fromordinal(n) ==
    LET n0   == n - 1
        n400 == n0 \div 146097
        r400 == n0 % 146097
        n100 == r400 \div 36524
        r100 == r400 % 36524
        n4   == r100 \div 1461
        r4   == r100 % 1461
        n1   == r4 \div 365
        r1   == r4 % 365
        year == n400 * 400 + 1 + n100 * 100 + n4 * 4 + n1
    IN  IF n1 = 4 \/ n100 = 4
        THEN Date(year - 1, 12, 31)
        ELSE LET m0 == CHOOSE m \in 1..12 :
                          /\ DaysBeforeMonth(year, m) <= r1
                          /\ r1 < DaysBeforeMonth(year, m) + DaysInMonth(year, m)
             IN  Date(year, m0, r1 - DaysBeforeMonth(year, m0) + 1)

\* d + timedelta(days=n): OverflowError outside date.min .. date.max.
plus_days(d, n) ==
    IF d = ErrDate THEN ErrDate
    ELSE LET o == toordinal(d) + n
         IN  IF o < 1 \/ o > toordinal(Date(9999, 12, 31))
             THEN ErrDate
             ELSE fromordinal(o)

\* d1 <= d2 on dates (date.__le__).
date_le(d1, d2) == toordinal(d1) <= toordinal(d2)

Min(a, b) == IF a <= b THEN a ELSE b

(***************************************************************************)
(* DATE / PERIOD HELPERS                                                   *)
(***************************************************************************)
VARIABLES
    CUTOFF_HOUR,       \* the configured cutoff hour (env CUTOFF_HOUR)
    req,               \* calendar call about to be made, with its arguments
    ret,               \* what that call returned (done = FALSE before the call)
    now,               \* the wall clock now_local() reads: [date, hour]
    chat_roles,        \* table chat_roles: chat_id -> role
    owners_chat_ids,   \* setting OWNERS_CHAT_IDS: list of chat ids
    report_mode_map,   \* bot_data["report_mode_map"]: <<chat, user>> -> payload
    full_mode_map,     \* bot_data["full_mode_map"]
    guided_full_map,   \* bot_data["guided_full_map"]
    daily_stats,       \* table daily_stats: day -> [sales, covers]
    full_daily_stats,  \* table full_daily_stats: day -> the twelve columns
    notes_entries,     \* table notes_entries, in insertion order
    hist,              \* history: the handler that ran last and the path it took
    set_at             \* history: clock reading when each pending entry was set

botvars == <<now, chat_roles, owners_chat_ids, report_mode_map, full_mode_map,
             guided_full_map, daily_stats, full_daily_stats, notes_entries,
             hist, set_at>>

vars == <<CUTOFF_HOUR, req, ret, now, chat_roles, owners_chat_ids, report_mode_map,
          full_mode_map, guided_full_map, daily_stats, full_daily_stats,
          notes_entries, hist, set_at>>

\* int(os.getenv("CUTOFF_HOUR", "11"))
DefaultCutoff == 11

\* business_day_for with an off-by-one comparison (mutant).
business_day_for_le(ts) ==
    IF ts.hour <= CUTOFF_HOUR THEN plus_days(ts.date, -1) ELSE ts.date

business_day_for(ts) ==
    IF ts.hour < CUTOFF_HOUR THEN plus_days(ts.date, -1) ELSE ts.date

\* add_months that forgets to clamp the day (mutant).
add_months_noclamp(d, months) ==
    LET y == d.year + ((d.month - 1 + months) \div 12)
        m == ((d.month - 1 + months) % 12) + 1
    IN  IF d.day <= DaysInMonth(y, m) THEN date_new(y, m, d.day)
        ELSE date_new(y, m, 28)

add_months(d, months) ==
    LET y == d.year + ((d.month - 1 + months) \div 12)
        m == ((d.month - 1 + months) % 12) + 1
        next_first == IF m = 12 THEN date_new(y + 1, 1, 1) ELSE date_new(y, m + 1, 1)
        last == plus_days(next_first, -1)
    IN  IF next_first = ErrDate \/ last = ErrDate THEN ErrDate
        ELSE date_new(y, m, Min(d.day, last.day))

(***************************************************************************)
(* parse_period_arg: a token is a sequence of one-character strings.       *)
(***************************************************************************)
Digits == {"0", "1", "2", "3", "4", "5", "6", "7", "8", "9"}
Whitespace == {" "}

\* str.upper (the letters the tokens may hold).
Upper(s) ==
    [i \in 1..Len(s) |->
        CASE s[i] = "m" -> "M"
          [] s[i] = "y" -> "Y"
          [] s[i] = "x" -> "X"
          [] OTHER -> s[i]]

RECURSIVE LStrip(_)
LStrip(s) == IF s # <<>> /\ Head(s) \in Whitespace THEN LStrip(Tail(s)) ELSE s

RECURSIVE RStrip(_)
RStrip(s) ==
    IF s # <<>> /\ s[Len(s)] \in Whitespace THEN RStrip(SubSeq(s, 1, Len(s) - 1)) ELSE s

Strip(s) == RStrip(LStrip(s))

\* str.isdigit: non-empty and every character a digit.
isdigit(s) == s # <<>> /\ \A i \in 1..Len(s) : s[i] \in Digits

DigitVal(c) ==
    CASE c = "0" -> 0 [] c = "1" -> 1 [] c = "2" -> 2 [] c = "3" -> 3 [] c = "4" -> 4
      [] c = "5" -> 5 [] c = "6" -> 6 [] c = "7" -> 7 [] c = "8" -> 8 [] c = "9" -> 9

\* int(s) for a digit string.
RECURSIVE int_of(_)
int_of(s) ==
    IF s = <<>> THEN 0
    ELSE 10 * int_of(SubSeq(s, 1, Len(s) - 1)) + DigitVal(s[Len(s)])

\* What parse_period_arg returns: kind "int" (n), kind "unit" (unit, n), or
\* kind "ValueError" (it raised).
PInt(n) == [kind |-> "int", unit |-> "", n |-> n]
PUnit(u, n) == [kind |-> "unit", unit |-> u, n |-> n]
PError == [kind |-> "ValueError", unit |-> "", n |-> 0]

\* re.fullmatch(r"(\d+)([MY])", a)
MatchesUnit(a) ==
    /\ Len(a) >= 2
    /\ a[Len(a)] \in {"M", "Y"}
    /\ isdigit(SubSeq(a, 1, Len(a) - 1))

\* parse_period_arg without the upper-casing (mutant).
parse_period_arg_noupper(arg) ==
    LET a == Strip(arg)
    IN  IF isdigit(a) THEN PInt(int_of(a))
        ELSE IF MatchesUnit(a)
             THEN PUnit(a[Len(a)], int_of(SubSeq(a, 1, Len(a) - 1)))
             ELSE PError

parse_period_arg(arg) ==
    LET a == Upper(Strip(arg))
    IN  IF isdigit(a) THEN PInt(int_of(a))
        ELSE IF MatchesUnit(a)
             THEN PUnit(a[Len(a)], int_of(SubSeq(a, 1, Len(a) - 1)))
             ELSE PError

(***************************************************************************)
(* Period, period_ending_today, daterange_days                             *)
(***************************************************************************)
\* A Period the call returned (err = ""), or the exception it raised.
Period(s, e) == [err |-> "", start |-> s, end |-> e]
Raised(what) == [err |-> what, start |-> ErrDate, end |-> ErrDate]

\* Period(start, end) when start was computed, else the exception that the
\* date arithmetic raised.
PeriodOrRaise(s, e, what) == IF s = ErrDate THEN Raised(what) ELSE Period(s, e)

\* period_ending_today counting N days back instead of N - 1 (mutant).
period_ending_today_offby1(arg, ts) ==
    LET end  == business_day_for(ts)
        spec == parse_period_arg(arg)
    IN  IF spec.kind = "ValueError" THEN Raised("ValueError")
        ELSE IF spec.kind = "int"
        THEN PeriodOrRaise(IF spec.n > 0 THEN plus_days(end, -spec.n) ELSE end,
                           end, "OverflowError")
        ELSE IF spec.unit = "M"
        THEN PeriodOrRaise(plus_days(add_months(end, -spec.n), 1), end, "ValueError")
        ELSE PeriodOrRaise(plus_days(date_new(end.year - spec.n, end.month, end.day), 1),
                           end, "ValueError")

\* period_ending_today whose month branch forgets the + 1 day (mutant).
period_ending_today_noplus1(arg, ts) ==
    LET end  == business_day_for(ts)
        spec == parse_period_arg(arg)
    IN  IF spec.kind = "ValueError" THEN Raised("ValueError")
        ELSE IF spec.kind = "int"
        THEN PeriodOrRaise(IF spec.n > 0 THEN plus_days(end, -(spec.n - 1)) ELSE end,
                           end, "OverflowError")
        ELSE IF spec.unit = "M"
        THEN PeriodOrRaise(add_months(end, -spec.n), end, "ValueError")
        ELSE PeriodOrRaise(plus_days(date_new(end.year - spec.n, end.month, end.day), 1),
                           end, "ValueError")

\* period_ending_today(arg), the clock reading ts being now_local().
period_ending_today(arg, ts) ==
    LET end  == business_day_for(ts)
        spec == parse_period_arg(arg)
    IN  IF spec.kind = "ValueError" THEN Raised("ValueError")
        ELSE IF spec.kind = "int"
        THEN PeriodOrRaise(IF spec.n > 0 THEN plus_days(end, -(spec.n - 1)) ELSE end,
                           end, "OverflowError")
        ELSE IF spec.unit = "M"
        THEN PeriodOrRaise(plus_days(add_months(end, -spec.n), 1), end, "ValueError")
        ELSE PeriodOrRaise(plus_days(date_new(end.year - spec.n, end.month, end.day), 1),
                           end, "ValueError")

daterange_days(p) == (toordinal(p.end) - toordinal(p.start)) + 1

\* /range: the Period built from two parsed dates (ErrDate: strptime raised),
\* or the usage reply when parsing fails or end < start.
range_period(s, e) ==
    IF s = ErrDate \/ e = ErrDate THEN Raised("ValueError")
    ELSE IF ~date_le(s, e) THEN Raised("ValueError")
    ELSE Period(s, e)

\* /month: month-to-date period.
month_period(ts) ==
    LET end == business_day_for(ts)
    IN  Period(date_new(end.year, end.month, 1), end)

business_day_today == business_day_for(now)

\* date.isoformat(): the text "YYYY-MM-DD", held as its three number fields.
isoformat(d) == <<d.year, d.month, d.day>>

\* parse_yyyy_mm_dd: strptime builds the date again, or raises (ErrDate).
parse_yyyy_mm_dd(s) == date_new(s[1], s[2], s[3])

(***************************************************************************)
(* FULL DAILY PARSING: texts are sequences of one-character strings.       *)
(***************************************************************************)
\* s.replace(c, "") for every c in cs.
Remove(s, cs) == SelectSeq(s, LAMBDA c : c \notin cs)

\* s.replace(a, b) for single characters a and b.
Replace(s, a, b) == [i \in 1..Len(s) |-> IF s[i] = a THEN b ELSE s[i]]

Count(s, c) == Cardinality({i \in 1..Len(s) : s[i] = c})

\* A number the code holds as a float: n / 10^scale, without trailing zeros
\* in the fraction.  ok = FALSE: float() raised ValueError.
NumErr == [ok |-> FALSE, n |-> 0, scale |-> 0]

RECURSIVE Num(_, _)
Num(n, scale) ==
    IF scale > 0 /\ n % 10 = 0 THEN Num(n \div 10, scale - 1)
    ELSE [ok |-> TRUE, n |-> n, scale |-> scale]

\* float(s) for s over digits, '.', ',', a sign, and other characters:
\* an optional sign, then digits with at most one '.', at least one digit.
float(s) ==
    LET signed == s # <<>> /\ s[1] \in {"-", "+"}
        body   == IF signed THEN Tail(s) ELSE s
        dot    == IF \E i \in 1..Len(body) : body[i] = "."
                  THEN CHOOSE i \in 1..Len(body) : body[i] = "." ELSE Len(body) + 1
        digits == Remove(body, {"."})
    IN  IF /\ \A i \in 1..Len(body) : body[i] \in Digits \cup {"."}
           /\ Count(body, ".") <= 1
           /\ digits # <<>>
        THEN Num((IF signed /\ s[1] = "-" THEN -1 ELSE 1) * int_of(digits),
                 Len(body) - Min(dot, Len(body)))
        ELSE NumErr

\* re.fullmatch(r"[\d\.]+,\d+", s)
MatchesThousands(s) ==
    \E k \in 2..(Len(s) - 1) :
        /\ s[k] = ","
        /\ \A i \in 1..(k - 1) : s[i] \in Digits \cup {"."}
        /\ \A i \in (k + 1)..Len(s) : s[i] \in Digits

\* The literal of the first s.replace(..., "") as the source file holds it:
\* the three characters U+00E2, U+201A, U+00AC, none of them the euro sign
\* (U+20AC).  Each is written here by its code point.
EuroLiteral == <<"U+00E2", "U+201A", "U+00AC">>

\* s.replace(old, ""): occurrences of old dropped, left to right.
RECURSIVE RemoveSub(_, _)
RemoveSub(s, old) ==
    IF Len(s) < Len(old) THEN s
    ELSE IF SubSeq(s, 1, Len(old)) = old THEN RemoveSub(SubSeq(s, Len(old) + 1, Len(s)), old)
    ELSE <<s[1]>> \o RemoveSub(Tail(s), old)

_num(s) ==
    LET a == Remove(RemoveSub(Strip(s), EuroLiteral), {" "})
        b == IF MatchesThousands(a) THEN Remove(a, {"."}) ELSE a
    IN  float(Replace(b, ",", "."))

\* What _int returns: [ok, v]; ok = FALSE: int() raised ValueError.
IntErr == [ok |-> FALSE, v |-> 0]

_int(s) ==
    LET a      == SelectSeq(Strip(s), LAMBDA c : c \in Digits \cup {"-"})
        signed == a # <<>> /\ a[1] = "-"
        body   == IF signed THEN Tail(a) ELSE a
    IN  IF isdigit(body)
        THEN [ok |-> TRUE, v |-> (IF signed THEN -1 ELSE 1) * int_of(body)]
        ELSE IntErr

\* str.lower() on the letters the texts use.
LowerMap ==
    ("A" :> "a") @@ ("B" :> "b") @@ ("C" :> "c") @@ ("D" :> "d") @@ ("E" :> "e") @@ ("F" :> "f")
    @@ ("G" :> "g") @@ ("H" :> "h") @@ ("I" :> "i") @@ ("J" :> "j") @@ ("K" :> "k") @@ ("L" :> "l")
    @@ ("M" :> "m") @@ ("N" :> "n") @@ ("O" :> "o") @@ ("P" :> "p") @@ ("Q" :> "q") @@ ("R" :> "r")
    @@ ("S" :> "s") @@ ("T" :> "t") @@ ("U" :> "u") @@ ("V" :> "v") @@ ("W" :> "w") @@ ("X" :> "x")
    @@ ("Y" :> "y") @@ ("Z" :> "z")

\* str.lower
Lower(s) == [i \in 1..Len(s) |-> IF s[i] \in DOMAIN LowerMap THEN LowerMap[s[i]] ELSE s[i]]

\* s.startswith(pfx)
StartsWith(s, pfx) == Len(pfx) <= Len(s) /\ SubSeq(s, 1, Len(pfx)) = pfx

\* Index of the first ':' of s, 0 when it has none.
ColonAt(s) ==
    IF \E i \in 1..Len(s) : s[i] = ":"
    THEN CHOOSE i \in 1..Len(s) : s[i] = ":" /\ \A k \in 1..(i - 1) : s[k] # ":"
    ELSE 0

\* s.split(":", 1)[1]; only taken where s holds a ':'.
AfterColon(s) == SubSeq(s, ColonAt(s) + 1, Len(s))

\* datetime.strptime(s, "%Y-%m-%d").date() for s matching \d{4}-\d{2}-\d{2}.
strptime_ymd(s) ==
    date_new(int_of(SubSeq(s, 1, 4)), int_of(SubSeq(s, 6, 7)), int_of(SubSeq(s, 9, 10)))

\* parse_dd_mm_yyyy for s matching \d{2}/\d{2}/\d{4}.
parse_dd_mm_yyyy(s) ==
    date_new(int_of(SubSeq(s, 7, 10)), int_of(SubSeq(s, 4, 5)), int_of(SubSeq(s, 1, 2)))

\* Whether s has digits everywhere but at positions p and q, which hold sep.
DatePattern(s, p, q, sep) ==
    /\ Len(s) = 10
    /\ \A i \in 1..10 : IF i \in {p, q} THEN s[i] = sep ELSE s[i] \in Digits

\* parse_any_date that reads DD/MM/YYYY as MM/DD/YYYY (mutant).
parse_date_text_mdy(s0) ==
    LET s == Strip(s0)
        d == date_new(int_of(SubSeq(s, 7, 10)), int_of(SubSeq(s, 1, 2)), int_of(SubSeq(s, 4, 5)))
    IN  IF DatePattern(s, 5, 8, "-")
        THEN [err |-> IF strptime_ymd(s) = ErrDate THEN "strptime" ELSE "",
              date |-> strptime_ymd(s)]
        ELSE IF DatePattern(s, 3, 6, "/")
        THEN [err |-> IF d = ErrDate THEN "strptime" ELSE "", date |-> d]
        ELSE [err |-> "Invalid date format", date |-> ErrDate]

\* parse_any_date on a text: [err, date]; err names the ValueError raised.
parse_date_text(s0) ==
    LET s == Strip(s0)
    IN  IF DatePattern(s, 5, 8, "-")
        THEN [err |-> IF strptime_ymd(s) = ErrDate THEN "strptime" ELSE "",
              date |-> strptime_ymd(s)]
        ELSE IF DatePattern(s, 3, 6, "/")
        THEN [err |-> IF parse_dd_mm_yyyy(s) = ErrDate THEN "strptime" ELSE "",
              date |-> parse_dd_mm_yyyy(s)]
        ELSE [err |-> "Invalid date format", date |-> ErrDate]

\* text.strip().splitlines() on a text given as its lines: blank lines at
\* either end go, every line is kept as it is.
IsBlank(line) == Strip(line) = <<>>

RECURSIVE DropBlankHead(_)
DropBlankHead(lines) ==
    IF lines # <<>> /\ IsBlank(Head(lines)) THEN DropBlankHead(Tail(lines)) ELSE lines

RECURSIVE DropBlankTail(_)
DropBlankTail(lines) ==
    IF lines # <<>> /\ IsBlank(lines[Len(lines)])
    THEN DropBlankTail(SubSeq(lines, 1, Len(lines) - 1))
    ELSE lines

splitlines(text) == DropBlankTail(DropBlankHead(text))

\* find_line for one raw line: does it start with one of the prefixes?
LineMatches(raw, prefixes) ==
    \E k \in 1..Len(prefixes) : StartsWith(Lower(raw), Lower(prefixes[k]))

\* The value find_line returns for a matching raw line.
LineValue(raw, prefixes) ==
    LET k == CHOOSE k \in 1..Len(prefixes) :
                 /\ StartsWith(Lower(raw), Lower(prefixes[k]))
                 /\ \A h \in 1..(k - 1) : ~StartsWith(Lower(raw), Lower(prefixes[h]))
    IN  IF ColonAt(raw) > 0 THEN Strip(AfterColon(raw))
        ELSE Strip(SubSeq(raw, Len(prefixes[k]) + 1, Len(raw)))

\* find_line whose scan keeps the last matching line (mutant).
find_line_last(lines, prefixes) ==
    LET hits == {i \in 1..Len(lines) : LineMatches(Strip(lines[i]), prefixes)}
    IN  IF hits = {} THEN [found |-> FALSE, val |-> <<>>]
        ELSE LET i == CHOOSE i \in hits : \A k \in hits : k <= i
             IN  [found |-> TRUE, val |-> LineValue(Strip(lines[i]), prefixes)]

\* find_line(prefixes) over the lines of t: [found, val]; found = FALSE is None.
find_line(lines, prefixes) ==
    LET hits == {i \in 1..Len(lines) : LineMatches(Strip(lines[i]), prefixes)}
    IN  IF hits = {} THEN [found |-> FALSE, val |-> <<>>]
        ELSE LET i == CHOOSE i \in hits : \A k \in hits : i <= k
             IN  [found |-> TRUE, val |-> LineValue(Strip(lines[i]), prefixes)]

\* find_line(...) or dflt
or_default(r, dflt) == IF r.found /\ r.val # <<>> THEN r.val ELSE dflt

\* The label texts parse_full_report_block looks for.
L ==
    [day |-> <<"D", "a", "y">>,
     total_sales_day |-> <<"T", "o", "t", "a", "l", " ", "S", "a", "l", "e", "s", " ", "D", "a", "y">>,
     total_sales |-> <<"T", "o", "t", "a", "l", " ", "S", "a", "l", "e", "s">>,
     visa |-> <<"V", "i", "s", "a">>,
     cash |-> <<"C", "a", "s", "h">>,
     tips |-> <<"T", "i", "p", "s">>,
     lunch |-> <<"L", "u", "n", "c", "h">>,
     dinner |-> <<"D", "i", "n", "n", "e", "r">>,
     pax |-> <<"p", "a", "x">>,
     walk_in |-> {<<"w", "a", "l", "k", " ", "i", "n">>, <<"w", "a", "l", "k", "-", "i", "n">>, <<"w", "a", "l", "k", "i", "n">>},
     no_show |-> {<<"n", "o", " ", "s", "h", "o", "w">>, <<"n", "o", "-", "s", "h", "o", "w">>, <<"n", "o", "s", "h", "o", "w">>}]

SectionLabel(section_name) == IF section_name = "Lunch" THEN L.lunch ELSE L.dinner

\* ln.lower().startswith("dinner:") or ln.lower().startswith("lunch:")
IsHeading(ln) ==
    \/ StartsWith(Lower(ln), Lower(L.dinner) \o <<":">>)
    \/ StartsWith(Lower(ln), Lower(L.lunch) \o <<":">>)

NoField == [set |-> FALSE, v |-> 0]

\* _int(ln.split(":", 1)[1]) stored into a sub-field: the state after it.
SetField(acc, field, ln) ==
    IF ColonAt(ln) = 0 THEN [acc EXCEPT !.err = "IndexError"]
    ELSE IF ~_int(AfterColon(ln)).ok THEN [acc EXCEPT !.err = "int"]
    ELSE [acc EXCEPT ![field] = [set |-> TRUE, v |-> _int(AfterColon(ln)).v]]

\* The loop of parse_section from line j up to line hi; stop: whether the
\* loop breaks at a service heading.
RECURSIVE section_scan(_, _, _, _, _)
section_scan(lines, j, hi, acc, stop) ==
    IF j > hi \/ acc.err # "" THEN acc
    ELSE LET ln   == Strip(lines[j])
             low  == Lower(ln)
             acc1 == IF ln = <<>> THEN acc
                     ELSE IF StartsWith(low, L.pax) THEN SetField(acc, "pax", ln)
                     ELSE IF \E w \in L.walk_in : StartsWith(low, w)
                     THEN SetField(acc, "walkins", ln)
                     ELSE IF \E w \in L.no_show : StartsWith(low, w)
                     THEN SetField(acc, "noshows", ln)
                     ELSE acc
         IN  IF ln # <<>> /\ acc1.err = "" /\ stop /\ IsHeading(ln) THEN acc1
             ELSE section_scan(lines, j + 1, hi, acc1, stop)

NoSection(err) ==
    [err |-> err, sales |-> NumErr, pax |-> 0, walkins |-> 0, noshows |-> 0]

\* parse_section(section_name); stop and strict are TRUE in the code:
\* the scan breaks at a heading, and a missing sub-field raises.
parse_section_with(lines0, section_name, stop, strict) ==
    LET lines == [i \in 1..Len(lines0) |-> Strip(lines0[i])]
        head  == Lower(SectionLabel(section_name)) \o <<":">>
        hits  == {i \in 1..Len(lines) : StartsWith(Lower(lines[i]), head)}
    IN  IF hits = {} THEN NoSection("Missing " \o section_name \o " section")
        ELSE
        LET idx   == CHOOSE i \in hits : \A k \in hits : i <= k
            sales == _num(Strip(AfterColon(lines[idx])))
            acc   == section_scan(lines, idx + 1, Min(idx + 9, Len(lines)),
                                  [err |-> "", pax |-> NoField, walkins |-> NoField,
                                   noshows |-> NoField], stop)
        IN  IF ~sales.ok THEN NoSection("float")
            ELSE IF acc.err # "" THEN NoSection(acc.err)
            ELSE IF strict /\ ~(acc.pax.set /\ acc.walkins.set /\ acc.noshows.set)
            THEN NoSection("Incomplete " \o section_name \o " fields")
            ELSE [err |-> "", sales |-> sales, pax |-> acc.pax.v,
                  walkins |-> acc.walkins.v, noshows |-> acc.noshows.v]

\* parse_section whose scan runs through the next heading (mutant).
parse_section_nobreak(lines, section_name) ==
    parse_section_with(lines, section_name, FALSE, TRUE)

\* parse_section that takes a missing sub-field as 0 (mutant).
parse_section_lenient(lines, section_name) ==
    parse_section_with(lines, section_name, TRUE, FALSE)

parse_section(lines, section_name) ==
    parse_section_with(lines, section_name, TRUE, TRUE)

\* The dict parse_full_report_block returns; amounts are floats, counts ints.
NoDict ==
    [day |-> ErrDate, total_sales |-> NumErr, visa |-> NumErr, cash |-> NumErr,
     tips |-> NumErr, lunch_sales |-> NumErr, lunch_pax |-> 0, lunch_walkins |-> 0,
     lunch_noshows |-> 0, dinner_sales |-> NumErr, dinner_pax |-> 0,
     dinner_walkins |-> 0, dinner_noshows |-> 0]

Failed(err) == [err |-> err, d |-> NoDict]

\* parse_full_report_block on a text given as its lines: [err, d]; err = ""
\* when the dict d is returned, else it names the exception that was raised
\* (the message of a ValueError the code raises itself, "strptime", "float"
\* or "int" for a ValueError of the library, "IndexError").
parse_full_report_text(text) ==
    LET t           == splitlines(text)
        day_str     == find_line(t, <<L.day>>)
        day_        == parse_date_text(day_str.val)
        total_sales == _num(or_default(find_line(t, <<L.total_sales_day, L.total_sales>>),
                                       <<>>))
        visa        == _num(or_default(find_line(t, <<L.visa>>), <<"0">>))
        cash        == _num(or_default(find_line(t, <<L.cash>>), <<"0">>))
        tips        == _num(or_default(find_line(t, <<L.tips>>), <<"0">>))
        lunch       == parse_section(t, "Lunch")
        dinner      == parse_section(t, "Dinner")
    IN  IF t = <<>> THEN Failed("Empty")
        ELSE IF ~day_str.found \/ day_str.val = <<>> THEN Failed("Missing Day")
        ELSE IF day_.err # "" THEN Failed(day_.err)
        ELSE IF ~(total_sales.ok /\ visa.ok /\ cash.ok /\ tips.ok) THEN Failed("float")
        ELSE IF lunch.err # "" THEN Failed(lunch.err)
        ELSE IF dinner.err # "" THEN Failed(dinner.err)
        ELSE [err |-> "",
              d   |-> [day |-> day_.date, total_sales |-> total_sales, visa |-> visa,
                       cash |-> cash, tips |-> tips,
                       lunch_sales |-> lunch.sales, lunch_pax |-> lunch.pax,
                       lunch_walkins |-> lunch.walkins, lunch_noshows |-> lunch.noshows,
                       dinner_sales |-> dinner.sales, dinner_pax |-> dinner.pax,
                       dinner_walkins |-> dinner.walkins,
                       dinner_noshows |-> dinner.noshows]]

(***************************************************************************)
(* TEXT CLEANING FOR NOTES ANALYTICS                                       *)
(***************************************************************************)
STOPWORDS ==
    {<<"a">>, <<"a", "n">>, <<"t", "h", "e">>, <<"a", "n", "d">>, <<"o", "r">>, <<"b", "u", "t">>,
     <<"i", "f">>, <<"t", "h", "e", "n">>, <<"e", "l", "s", "e">>, <<"f", "o", "r">>, <<"t", "o">>,
     <<"o", "f">>, <<"i", "n">>, <<"o", "n">>, <<"a", "t">>, <<"b", "y">>, <<"w", "i", "t", "h">>,
     <<"w", "i", "t", "h", "o", "u", "t">>, <<"f", "r", "o", "m">>, <<"a", "s">>, <<"i", "s">>,
     <<"a", "r", "e">>, <<"w", "a", "s">>, <<"w", "e", "r", "e">>, <<"b", "e">>,
     <<"b", "e", "e", "n">>, <<"b", "e", "i", "n", "g">>, <<"i">>, <<"y", "o", "u">>, <<"h", "e">>,
     <<"s", "h", "e">>, <<"i", "t">>, <<"w", "e">>, <<"t", "h", "e", "y">>, <<"m", "e">>,
     <<"h", "i", "m">>, <<"h", "e", "r">>, <<"u", "s">>, <<"t", "h", "e", "m">>, <<"m", "y">>,
     <<"y", "o", "u", "r">>, <<"h", "i", "s">>, <<"t", "h", "e", "i", "r">>, <<"o", "u", "r">>,
     <<"t", "h", "i", "s">>, <<"t", "h", "a", "t">>, <<"t", "h", "e", "s", "e">>,
     <<"t", "h", "o", "s", "e">>, <<"d", "e">>, <<"l", "a">>, <<"e", "l">>, <<"l", "o", "s">>,
     <<"l", "a", "s">>, <<"y">>, <<"o">>, <<"p", "e", "r", "o">>, <<"s", "i">>,
     <<"e", "n", "t", "o", "n", "c", "e", "s">>, <<"p", "a", "r", "a">>, <<"e", "n">>,
     <<"c", "o", "n">>, <<"s", "i", "n">>, <<"p", "o", "r">>, <<"d", "e", "l">>, <<"a", "l">>,
     <<"e", "s">>, <<"s", "o", "n">>, <<"f", "u", "e">>, <<"f", "u", "e", "r", "o", "n">>,
     <<"s", "e", "r">>, <<"e", "s", "t", "a", "r">>, <<"t", "e", "s", "t">>}

\* The characters the pattern [^a-z0-9...] keeps: lower-case ASCII letters,
\* digits, and the nine characters that follow "0-9" in the class as the
\* source file holds it (written here by code point).
TokenClass ==
    {LowerMap[c] : c \in DOMAIN LowerMap} \cup Digits
    \cup {"U+00C3", "U+00A1", "U+00A9", "U+00AD", "U+00B3", "U+00BA", "U+00B1", "U+00BC", "U+00A7"}

\* text.split(): the maximal runs without a space.
RECURSIVE split(_)
split(s) ==
    IF s = <<>> THEN <<>>
    ELSE IF s[1] = " " THEN split(Tail(s))
    ELSE LET stop == IF \E i \in 1..Len(s) : s[i] = " "
                     THEN CHOOSE i \in 1..Len(s) : s[i] = " " /\ \A j \in 1..(i - 1) : s[j] # " "
                     ELSE Len(s) + 1
         IN  <<SubSeq(s, 1, stop - 1)>> \o split(SubSeq(s, stop, Len(s)))

tokenize(text) ==
    LET low   == Lower(text)
        clean == [i \in 1..Len(low) |-> IF low[i] \in TokenClass THEN low[i] ELSE " "]
    IN  SelectSeq(split(clean), LAMBDA w : w \notin STOPWORDS /\ Len(w) >= 3)

\* Configuration option pending_ttl_minutes ("e.g. 30 minutes").
pending_ttl_minutes == 30

(***************************************************************************)
(* SECURITY / AUTH, CHAT ROLES                                             *)
(***************************************************************************)
ROLE_OPS_ADMIN == "OPS_ADMIN"
ROLE_OWNERS_SILENT == "OWNERS_SILENT"
ROLE_MANAGER_INPUT == "MANAGER_INPUT"
ROLE_OWNERS_REQUESTS == "OWNERS_REQUESTS"
VALID_CHAT_ROLES ==
    {ROLE_OPS_ADMIN, ROLE_OWNERS_SILENT, ROLE_MANAGER_INPUT, ROLE_OWNERS_REQUESTS}

\* The deployment modelled: restricted access, user 1 on the allow-list.
ACCESS_MODE == "RESTRICTED"
ALLOWED_USER_IDS == {1}

is_admin(u) ==
    \/ ACCESS_MODE = "OPEN"
    \/ ALLOWED_USER_IDS = {}
    \/ (u # 0 /\ u \in ALLOWED_USER_IDS)

\* get_chat_role: the role of the chat's row, "None" when it has no row.
get_chat_role(c) == IF c \in DOMAIN chat_roles THEN chat_roles[c] ELSE "None"

\* The chat_roles table after set_chat_role(c, role).
set_chat_role(c, role) ==
    [x \in DOMAIN chat_roles \cup {c} |-> IF x = c THEN role ELSE chat_roles[x]]

\* The OWNERS_CHAT_IDS list after add_owner_chat_legacy(c).
add_owner_chat_legacy(c) ==
    IF \E i \in 1..Len(owners_chat_ids) : owners_chat_ids[i] = c
    THEN owners_chat_ids
    ELSE Append(owners_chat_ids, c)

allow_sales_cmd(c, u) ==
    \/ get_chat_role(c) \in {ROLE_OPS_ADMIN, ROLE_MANAGER_INPUT, ROLE_OWNERS_REQUESTS}
    \/ is_admin(u)

allow_notes_cmd(c, u) ==
    \/ get_chat_role(c) \in {ROLE_OPS_ADMIN, ROLE_MANAGER_INPUT}
    \/ is_admin(u)

allow_full_cmd(c, u) ==
    \/ get_chat_role(c) \in {ROLE_OPS_ADMIN, ROLE_MANAGER_INPUT}
    \/ is_admin(u)

(***************************************************************************)
(* STATE MAP HELPERS                                                       *)
(***************************************************************************)
\* str(n) of an integer: its decimal digits, '-' first when negative.
RECURSIVE str(_)
str(n) ==
    LET digit(d) == <<"0", "1", "2", "3", "4", "5", "6", "7", "8", "9">>[d + 1]
    IN  IF n < 0 THEN <<"-">> \o str(-n)
        ELSE IF n < 10 THEN <<digit(n)>>
        ELSE str(n \div 10) \o <<digit(n % 10)>>

\* A key that joins the two numbers without a separator.
Key_nosep(c, u) == str(c) \o str(u)

\* k = f"{chat_id}:{user_id}"
Key(c, u) == str(c) \o <<":">> \o str(u)

set_mode(m, c, u, payload) ==
    [k \in DOMAIN m \cup {Key(c, u)} |-> IF k = Key(c, u) THEN payload ELSE m[k]]

\* A clear_mode that pops nothing.
clear_mode_none(m, c, u) == m

clear_mode(m, c, u) == [k \in DOMAIN m \ {Key(c, u)} |-> m[k]]

\* get_mode(...) returned an entry and its "on" flag is set.
mode_on(m, c, u) == Key(c, u) \in DOMAIN m /\ m[Key(c, u)].on

get_mode(m, c, u) == m[Key(c, u)]

(***************************************************************************)
(* Text messages.  A text is one of a few named messages; what the code's  *)
(* functions compute from each text is tabulated here.                     *)
(*   notes_en   three English note headings with ':' (Incidents, Staff,    *)
(*              Complaints) and free text without digits                   *)
(*   notes_es   the same notes under Spanish headings                      *)
(*   plain      "ok thanks": no heading, no label, no digit                *)
(*   full       the block FULL_EXAMPLE shows (Day: 24/01/2026 ...)         *)
(*   full_es    the same block with Spanish labels                         *)
(*   full_nokw  the same block with its first line "Day 24/01/2026"        *)
(*   full_bad   the block without the Dinner "No show" line                *)
(*   num        "120"                                                      *)
(*   date       "24/01/2026"                                               *)
(***************************************************************************)
Texts == {"notes_en", "notes_es", "plain", "full", "full_es", "full_nokw",
          "full_bad", "num", "date"}

\* looks_like_notes_report: the text holds three or more of the section
\* headings with ':'.
looks_like_notes_report(t) == t \in {"notes_en", "notes_es"}

\* looks_like_notes_report on the characters of a text: t is the lowered
\* text, has_any(prefixes) is any(p in t for p in prefixes), and hits counts
\* the four tests.
looks_like_notes_chars(text) ==
    LET t == Lower(text)
        in_t(p) == \E i \in 1..(Len(t) - Len(p) + 1) : SubSeq(t, i, i + Len(p) - 1) = p
        has_any(prefixes) == \E p \in prefixes : in_t(p)
        hits ==
            (IF has_any({<<"i", "n", "c", "i", "d", "e", "n", "t", "s", ":">>,
                         <<"i", "n", "c", "i", "d", "e", "n", "t", "e", "s", ":">>,
                         <<"i", "n", "c", "i", "d", "e", "n", "c", "i", "a", "s", ":">>}) THEN 1 ELSE 0)
            + (IF has_any({<<"s", "t", "a", "f", "f", ":">>,
                           <<"p", "e", "r", "s", "o", "n", "a", "l", ":">>,
                           <<"e", "q", "u", "i", "p", "o", ":">>}) THEN 1 ELSE 0)
            + (IF has_any({<<"s", "o", "l", "d", " ", "o", "u", "t", ":">>,
                           <<"a", "g", "o", "t", "a", "d">>,
                           <<"a", "g", "o", "t", "a", "d", "o", ":">>}) THEN 1 ELSE 0)
            + (IF has_any({<<"c", "o", "m", "p", "l", "a", "i", "n", "t", "s", ":">>,
                           <<"q", "u", "e", "j", "a", "s", ":">>,
                           <<"r", "e", "c", "l", "a", "m", "a", "c", "i", "o", "n", "e", "s", ":">>}) THEN 1 ELSE 0)
    IN  hits >= 3

\* normalize_notes_report: Spanish note headings become the English ones.
normalize_notes_report(t) == IF t = "notes_es" THEN "notes_en" ELSE t

\* normalize_spanish_full_report: Spanish labels become the English schema.
normalize_spanish_full_report(t) == IF t = "full_es" THEN "full" ELSE t

\* ("day:" in low) and ("total sales" in low) and ("lunch" in low) and ("dinner" in low)
has_full_keywords(t) == t \in {"full", "full_bad"}

\* Amounts are held in cents.
FullFields ==
    {"total_sales", "visa", "cash", "tips", "lunch_sales", "lunch_pax", "lunch_walkins",
     "lunch_noshows", "dinner_sales", "dinner_pax", "dinner_walkins", "dinner_noshows"}

NoRecord == [f \in FullFields \cup {"day"} |-> IF f = "day" THEN ErrDate ELSE 0]

\* The record parse_full_report_block returns for the FULL_EXAMPLE block.
ExampleRecord ==
    [day |-> Date(2026, 1, 24), total_sales |-> 719950, visa |-> 640030,
     cash |-> 79920, tips |-> 10360,
     lunch_sales |-> 234130, lunch_pax |-> 50, lunch_walkins |-> 3, lunch_noshows |-> 7,
     dinner_sales |-> 485820, dinner_pax |-> 106, dinner_walkins |-> 2,
     dinner_noshows |-> 4]

\* parse_full_report_block(text): the record, or NoRecord when it raises.
parse_full_report_block(t) ==
    IF t \in {"full", "full_nokw"} THEN ExampleRecord ELSE NoRecord

\* parse_any_date(text): the date, or ErrDate when it raises.
parse_any_date(t) == IF t = "date" THEN date_new(2026, 1, 24) ELSE ErrDate

\* _num(text) and _int(text): [ok, v]; ok = FALSE when float()/int() raises.
\* _int drops every character that is not a digit or '-', so "24/01/2026"
\* reads as 24012026, and a report block reads as the one number its digits
\* spell (some forty digits, held here as 999999).
num_of(t) == IF t = "num" THEN [ok |-> TRUE, v |-> 12000] ELSE [ok |-> FALSE, v |-> 0]

int_of_text(t) ==
    CASE t = "num" -> [ok |-> TRUE, v |-> 120]
      [] t = "date" -> [ok |-> TRUE, v |-> 24012026]
      [] t \in {"full", "full_es", "full_nokw", "full_bad"} -> [ok |-> TRUE, v |-> 999999]
      [] OTHER -> [ok |-> FALSE, v |-> 0]

(***************************************************************************)
(* CORE QUERIES                                                            *)
(***************************************************************************)
\* An upsert that keeps the row a day already has.
upsert_daily_keep(day, sales, covers) ==
    [d \in DOMAIN daily_stats \cup {day} |->
        IF d \in DOMAIN daily_stats THEN daily_stats[d]
        ELSE [sales |-> sales, covers |-> covers]]

\* daily_stats after upsert_daily(day, sales, covers).
upsert_daily(day, sales, covers) ==
    [d \in DOMAIN daily_stats \cup {day} |->
        IF d = day THEN [sales |-> sales, covers |-> covers] ELSE daily_stats[d]]

\* The twelve columns of a full_daily_stats row.
FullRow(r) == [f \in FullFields |-> r[f]]

\* full_daily_stats after upsert_full_day(r.day, ...).
upsert_full_day(r) ==
    [d \in DOMAIN full_daily_stats \cup {r.day} |->
        IF d = r.day THEN FullRow(r) ELSE full_daily_stats[d]]

\* An insert that replaces the entries of the same day.
insert_note_entry_replace(day, c, u, text) ==
    Append(SelectSeq(notes_entries, LAMBDA e : e.day # day),
           [day |-> day, chat_id |-> c, user_id |-> u, text |-> text])

\* notes_entries after insert_note_entry(day, chat, user, text).
insert_note_entry(day, c, u, text) ==
    Append(notes_entries, [day |-> day, chat_id |-> c, user_id |-> u, text |-> text])

(***************************************************************************)
(* FULL DAILY: the guided steps                                            *)
(***************************************************************************)
\* The questions without the last one.
GUIDED_STEPS_short ==
    <<"day", "total_sales", "visa", "cash", "tips", "lunch_sales", "lunch_pax",
      "lunch_walkins", "lunch_noshows", "dinner_sales", "dinner_pax", "dinner_walkins">>

\* GUIDED_STEPS: the fields asked for, in order.
GUIDED_STEPS ==
    <<"day", "total_sales", "visa", "cash", "tips", "lunch_sales", "lunch_pax",
      "lunch_walkins", "lunch_noshows", "dinner_sales", "dinner_pax",
      "dinner_walkins", "dinner_noshows">>

\* The answer to a guided question as on_text reads it: [ok, v].
guided_answer(field, t) ==
    IF field = "day"
    THEN [ok |-> parse_any_date(t) # ErrDate, v |-> parse_any_date(t)]
    ELSE IF field \in {"total_sales", "visa", "cash", "tips", "lunch_sales", "dinner_sales"}
    THEN num_of(t)
    ELSE int_of_text(t)

(***************************************************************************)
(* Handlers.  Each action is one handler run to its end.  db names the     *)
(* database write of the run that raises (0: none does); a read that       *)
(* raises ends the handler before it changed anything.                     *)
(***************************************************************************)
Hours24(ts) == toordinal(ts.date) * 24 + ts.hour

\* Hours since the pending entry of map `name` for (c, u) was set.
AgeOf(name, c, u) ==
    IF <<name, c, u>> \in DOMAIN set_at
    THEN Hours24(now) - Hours24(set_at[<<name, c, u>>])
    ELSE 0

Stamp(name, c, u) ==
    [k \in DOMAIN set_at \cup {<<name, c, u>>} |->
        IF k = <<name, c, u>> THEN now ELSE set_at[k]]

Unstamp(names, c, u) ==
    [k \in DOMAIN set_at \ { <<n, c, u>> : n \in names } |-> set_at[k]]

Ran(op, c, u, path, age) ==
    [op |-> op, chat |-> c, user |-> u, path |-> path, age |-> age]

\* 2026-01-25 10:00, an hour before the cutoff: the business day is 2026-01-24.
InitNow == [date |-> Date(2026, 1, 25), hour |-> 10]

\* /setchatrole ROLE
setchatrole_cmd(c, u, role, db) ==
    /\ UNCHANGED <<CUTOFF_HOUR, req, ret, now, report_mode_map, full_mode_map,
                   guided_full_map, daily_stats, full_daily_stats, notes_entries, set_at>>
    /\ IF ~is_admin(u) \/ role \notin VALID_CHAT_ROLES
       THEN /\ hist' = Ran("setchatrole", c, u, "refused", 0)
            /\ UNCHANGED <<chat_roles, owners_chat_ids>>
       ELSE IF db = 1
       THEN /\ hist' = Ran("setchatrole", c, u, "db_error", 0)
            /\ UNCHANGED <<chat_roles, owners_chat_ids>>
       ELSE /\ chat_roles' = set_chat_role(c, role)
            /\ owners_chat_ids' =
                   IF role = ROLE_OWNERS_SILENT /\ db # 2
                   THEN add_owner_chat_legacy(c)
                   ELSE owners_chat_ids
            /\ hist' = Ran("setchatrole", c, u,
                           IF role = ROLE_OWNERS_SILENT /\ db = 2 THEN "db_error" ELSE "set",
                           0)

\* The OWNERS_CHAT_IDS list after remove_owner_chat_legacy(c).
remove_owner_chat_legacy(c) == SelectSeq(owners_chat_ids, LAMBDA x : x # c)

\* chats_with_role(role): the chats whose row holds the role, ORDER BY chat_id.
chats_with_role(role) ==
    LET ids == {c \in DOMAIN chat_roles : chat_roles[c] = role}
    IN  CHOOSE rows \in [1..Cardinality(ids) -> ids] :
            \A i, j \in 1..Cardinality(ids) : i < j => rows[i] < rows[j]

\* owners_silent_chat_ids(): the chats with role OWNERS_SILENT, and the
\* OWNERS_CHAT_IDS list when there is none.
owners_silent_chat_ids ==
    LET ids == chats_with_role(ROLE_OWNERS_SILENT)
    IN  IF ids # <<>> THEN ids ELSE owners_chat_ids

\* /setowners
setowners(c, u) ==
    /\ UNCHANGED <<CUTOFF_HOUR, req, ret, now, report_mode_map, full_mode_map,
                   guided_full_map, daily_stats, full_daily_stats, notes_entries, set_at>>
    /\ IF ~is_admin(u)
       THEN /\ hist' = Ran("setowners", c, u, "refused", 0)
            /\ UNCHANGED <<chat_roles, owners_chat_ids>>
       ELSE /\ owners_chat_ids' = add_owner_chat_legacy(c)
            /\ chat_roles' = set_chat_role(c, ROLE_OWNERS_SILENT)
            /\ hist' = Ran("setowners", c, u, "registered", 0)

\* /removeowners
removeowners(c, u) ==
    /\ UNCHANGED <<CUTOFF_HOUR, req, ret, now, chat_roles, report_mode_map, full_mode_map,
                   guided_full_map, daily_stats, full_daily_stats, notes_entries, set_at>>
    /\ IF ~is_admin(u)
       THEN /\ hist' = Ran("removeowners", c, u, "refused", 0)
            /\ UNCHANGED owners_chat_ids
       ELSE /\ owners_chat_ids' = remove_owner_chat_legacy(c)
            /\ hist' = Ran("removeowners", c, u, "removed", 0)

\* /report, or "/report <notes>" (tail # "": the notes are saved at once).
report(c, u, tail, db) ==
    /\ UNCHANGED <<CUTOFF_HOUR, req, ret, now, chat_roles, owners_chat_ids, full_mode_map,
                   guided_full_map, daily_stats, full_daily_stats>>
    /\ IF ~allow_notes_cmd(c, u)
       THEN /\ hist' = Ran("report", c, u, "refused", 0)
            /\ UNCHANGED <<report_mode_map, notes_entries, set_at>>
       ELSE IF tail # ""
       THEN /\ UNCHANGED <<report_mode_map, set_at>>
            /\ IF db = 1
               THEN /\ hist' = Ran("report", c, u, "db_error", 0)
                    /\ UNCHANGED notes_entries
               ELSE /\ Len(notes_entries) < MaxNotes
                    /\ notes_entries' = insert_note_entry(business_day_today, c, u,
                                                          normalize_notes_report(tail))
                    /\ hist' = Ran("report", c, u, "saved_tail", 0)
       ELSE /\ report_mode_map' =
                   set_mode(report_mode_map, c, u,
                            [on |-> TRUE, day |-> isoformat(business_day_today)])
            /\ set_at' = Stamp("report", c, u)
            /\ hist' = Ran("report", c, u, "mode_on", 0)
            /\ UNCHANGED notes_entries

\* /cancelreport
cancelreport(c, u) ==
    /\ UNCHANGED <<CUTOFF_HOUR, req, ret, now, chat_roles, owners_chat_ids, full_mode_map,
                   guided_full_map, daily_stats, full_daily_stats, notes_entries>>
    /\ IF ~allow_notes_cmd(c, u)
       THEN /\ hist' = Ran("cancelreport", c, u, "refused", 0)
            /\ UNCHANGED <<report_mode_map, set_at>>
       ELSE /\ report_mode_map' = clear_mode(report_mode_map, c, u)
            /\ set_at' = Unstamp({"report"}, c, u)
            /\ hist' = Ran("cancelreport", c, u, "cleared", 0)

\* /setfull that opens the paste mode and leaves a guided entry in place.
setfull_keep(c, u) ==
    /\ UNCHANGED <<CUTOFF_HOUR, req, ret, now, chat_roles, owners_chat_ids, report_mode_map,
                   daily_stats, full_daily_stats, notes_entries, guided_full_map>>
    /\ IF ~allow_full_cmd(c, u)
       THEN /\ hist' = Ran("setfull", c, u, "refused", 0)
            /\ UNCHANGED <<full_mode_map, set_at>>
       ELSE /\ full_mode_map' = set_mode(full_mode_map, c, u, [on |-> TRUE])
            /\ set_at' = [k \in DOMAIN set_at \cup {<<"full", c, u>>} |->
                             IF k = <<"full", c, u>> THEN now ELSE set_at[k]]
            /\ hist' = Ran("setfull", c, u, "mode_on", 0)

\* /setfull
setfull(c, u) ==
    /\ UNCHANGED <<CUTOFF_HOUR, req, ret, now, chat_roles, owners_chat_ids, report_mode_map,
                   daily_stats, full_daily_stats, notes_entries>>
    /\ IF ~allow_full_cmd(c, u)
       THEN /\ hist' = Ran("setfull", c, u, "refused", 0)
            /\ UNCHANGED <<full_mode_map, guided_full_map, set_at>>
       ELSE /\ guided_full_map' = clear_mode(guided_full_map, c, u)
            /\ full_mode_map' = set_mode(full_mode_map, c, u, [on |-> TRUE])
            /\ set_at' = [k \in (DOMAIN set_at \ {<<"guided", c, u>>}) \cup {<<"full", c, u>>} |->
                             IF k = <<"full", c, u>> THEN now ELSE set_at[k]]
            /\ hist' = Ran("setfull", c, u, "mode_on", 0)

\* /setfullguided
setfullguided(c, u) ==
    /\ UNCHANGED <<CUTOFF_HOUR, req, ret, now, chat_roles, owners_chat_ids, report_mode_map,
                   daily_stats, full_daily_stats, notes_entries>>
    /\ IF ~allow_full_cmd(c, u)
       THEN /\ hist' = Ran("setfullguided", c, u, "refused", 0)
            /\ UNCHANGED <<full_mode_map, guided_full_map, set_at>>
       ELSE /\ full_mode_map' = clear_mode(full_mode_map, c, u)
            /\ guided_full_map' =
                   set_mode(guided_full_map, c, u,
                            [on |-> TRUE, step |-> 0, data |-> <<>>,
                             awaiting_confirm |-> FALSE])
            /\ set_at' = [k \in (DOMAIN set_at \ {<<"full", c, u>>}) \cup {<<"guided", c, u>>} |->
                             IF k = <<"guided", c, u>> THEN now ELSE set_at[k]]
            /\ hist' = Ran("setfullguided", c, u, "mode_on", 0)

\* /cancelfull
cancelfull(c, u) ==
    /\ UNCHANGED <<CUTOFF_HOUR, req, ret, now, chat_roles, owners_chat_ids, report_mode_map,
                   daily_stats, full_daily_stats, notes_entries>>
    /\ IF ~allow_full_cmd(c, u)
       THEN /\ hist' = Ran("cancelfull", c, u, "refused", 0)
            /\ UNCHANGED <<full_mode_map, guided_full_map, set_at>>
       ELSE /\ full_mode_map' = clear_mode(full_mode_map, c, u)
            /\ guided_full_map' = clear_mode(guided_full_map, c, u)
            /\ set_at' = Unstamp({"full", "guided"}, c, u)
            /\ hist' = Ran("cancelfull", c, u, "cleared", 0)

\* Covers counted from the lunch service alone.
covers_of_lunch(d) == d["lunch_pax"]

\* covers = int(d["lunch_pax"] + d["dinner_pax"])
covers_of(d) == d["lunch_pax"] + d["dinner_pax"]

\* The two writes of a full daily report d, the write numbered db raising:
\* upsert_full_day commits before upsert_daily starts.
SaveFull(d, db) ==
    /\ full_daily_stats' = IF db = 1 THEN full_daily_stats ELSE upsert_full_day(d)
    /\ daily_stats' = IF db \in {1, 2} THEN daily_stats
                      ELSE upsert_daily(d["day"], d["total_sales"], covers_of(d))

\* /confirmfull
confirmfull(c, u, db) ==
    /\ UNCHANGED <<CUTOFF_HOUR, req, ret, now, chat_roles, owners_chat_ids, report_mode_map,
                   full_mode_map, notes_entries>>
    /\ IF ~allow_full_cmd(c, u)
       THEN /\ hist' = Ran("confirmfull", c, u, "refused", 0)
            /\ UNCHANGED <<guided_full_map, daily_stats, full_daily_stats, set_at>>
       ELSE IF ~(mode_on(guided_full_map, c, u)
                 /\ get_mode(guided_full_map, c, u).awaiting_confirm)
       THEN /\ hist' = Ran("confirmfull", c, u, "no_preview", 0)
            /\ UNCHANGED <<guided_full_map, daily_stats, full_daily_stats, set_at>>
       ELSE LET d == get_mode(guided_full_map, c, u).data
            IN  /\ SaveFull(d, db)
                /\ IF db \in {1, 2}
                   THEN /\ hist' = Ran("confirmfull", c, u, "db_error",
                                       AgeOf("guided", c, u))
                        /\ UNCHANGED <<guided_full_map, set_at>>
                   ELSE /\ guided_full_map' = clear_mode(guided_full_map, c, u)
                        /\ set_at' = Unstamp({"guided"}, c, u)
                        /\ hist' = Ran("confirmfull", c, u, "saved",
                                       AgeOf("guided", c, u))

\* The flow of on_text that handles text t of (c, u) with the report flow
\* tried before the paste flow.
flow_report_first(c, u, t) ==
    LET auto == get_chat_role(c) \in {ROLE_OPS_ADMIN, ROLE_MANAGER_INPUT}
    IN  IF auto /\ looks_like_notes_report(t) THEN "notes_auto"
        ELSE IF auto /\ has_full_keywords(normalize_spanish_full_report(t)) THEN "full_auto"
        ELSE IF mode_on(guided_full_map, c, u) THEN "guided"
        ELSE IF mode_on(report_mode_map, c, u) THEN "report"
        ELSE IF mode_on(full_mode_map, c, u) THEN "paste"
        ELSE "none"

\* The flow of on_text that handles text t of (c, u): the first of its
\* branches whose condition holds, each branch ending in a return.
flow(c, u, t) ==
    LET auto == get_chat_role(c) \in {ROLE_OPS_ADMIN, ROLE_MANAGER_INPUT}
    IN  IF auto /\ looks_like_notes_report(t) THEN "notes_auto"
        ELSE IF auto /\ has_full_keywords(normalize_spanish_full_report(t)) THEN "full_auto"
        ELSE IF mode_on(guided_full_map, c, u) THEN "guided"
        ELSE IF mode_on(full_mode_map, c, u) THEN "paste"
        ELSE IF mode_on(report_mode_map, c, u) THEN "report"
        ELSE "none"

\* A text message that is not a command.
on_text(c, u, t, db) ==
    LET role == get_chat_role(c)
        normalized_full == normalize_spanish_full_report(t)
    IN
    /\ UNCHANGED <<CUTOFF_HOUR, req, ret, now, chat_roles, owners_chat_ids>>
    /\ IF flow(c, u, t) = "notes_auto"
       THEN \* PATCH A: auto-detected notes report
            /\ UNCHANGED <<report_mode_map, full_mode_map, guided_full_map, daily_stats,
                           full_daily_stats, set_at>>
            /\ IF db = 1
               THEN /\ hist' = Ran("on_text", c, u, "db_error", 0)
                    /\ UNCHANGED notes_entries
               ELSE /\ Len(notes_entries) < MaxNotes
                    /\ notes_entries' = insert_note_entry(business_day_today, c, u,
                                                          normalize_notes_report(t))
                    /\ hist' = Ran("on_text", c, u, "notes_auto", 0)
       ELSE IF flow(c, u, t) = "full_auto"
       THEN \* PATCH B: auto-detected full report; every exception is swallowed
            /\ UNCHANGED <<report_mode_map, full_mode_map, guided_full_map, notes_entries,
                           set_at>>
            /\ LET d == parse_full_report_block(normalized_full)
               IN  IF d = NoRecord
                   THEN /\ hist' = Ran("on_text", c, u, "full_auto_unparsed", 0)
                        /\ UNCHANGED <<daily_stats, full_daily_stats>>
                   ELSE /\ SaveFull(d, db)
                        /\ hist' = Ran("on_text", c, u,
                                       IF db \in {1, 2} THEN "full_auto_db_error"
                                       ELSE "full_auto", 0)
       ELSE IF flow(c, u, t) = "guided"
       THEN \* guided full flow
            /\ UNCHANGED <<report_mode_map, full_mode_map, daily_stats, full_daily_stats,
                           notes_entries, set_at>>
            /\ LET st == get_mode(guided_full_map, c, u)
               IN  IF st.awaiting_confirm
                   THEN /\ hist' = Ran("on_text", c, u, "guided_awaiting",
                                       AgeOf("guided", c, u))
                        /\ UNCHANGED guided_full_map
                   ELSE LET field == GUIDED_STEPS[st.step + 1]
                            ans   == guided_answer(field, t)
                            data  == [f \in DOMAIN st.data \cup {field} |->
                                         IF f = field THEN ans.v ELSE st.data[f]]
                            step  == st.step + 1
                        IN  IF ~ans.ok
                            THEN /\ hist' = Ran("on_text", c, u, "guided_retry",
                                                AgeOf("guided", c, u))
                                 /\ UNCHANGED guided_full_map
                            ELSE /\ guided_full_map' =
                                        set_mode(guided_full_map, c, u,
                                                 [on |-> TRUE, step |-> step, data |-> data,
                                                  awaiting_confirm |->
                                                      (step >= Len(GUIDED_STEPS))])
                                 /\ hist' = Ran("on_text", c, u, "guided",
                                                AgeOf("guided", c, u))
       ELSE IF flow(c, u, t) = "paste"
       THEN \* explicit /setfull paste
            /\ UNCHANGED <<report_mode_map, guided_full_map, notes_entries>>
            /\ LET d == parse_full_report_block(normalized_full)
               IN  IF d = NoRecord
                   THEN /\ hist' = Ran("on_text", c, u, "paste_unparsed",
                                       AgeOf("full", c, u))
                        /\ UNCHANGED <<daily_stats, full_daily_stats, full_mode_map, set_at>>
                   ELSE /\ SaveFull(d, db)
                        /\ IF db \in {1, 2}
                           THEN /\ hist' = Ran("on_text", c, u, "paste_db_error",
                                               AgeOf("full", c, u))
                                /\ UNCHANGED <<full_mode_map, set_at>>
                           ELSE /\ full_mode_map' = clear_mode(full_mode_map, c, u)
                                /\ set_at' = Unstamp({"full"}, c, u)
                                /\ hist' = Ran("on_text", c, u, "paste",
                                               AgeOf("full", c, u))
       ELSE IF flow(c, u, t) = "report"
       THEN \* explicit /report notes
            /\ UNCHANGED <<full_mode_map, guided_full_map, daily_stats, full_daily_stats>>
            /\ LET day == parse_yyyy_mm_dd(get_mode(report_mode_map, c, u).day)
               IN  IF db = 1
                   THEN /\ hist' = Ran("on_text", c, u, "db_error", AgeOf("report", c, u))
                        /\ UNCHANGED <<report_mode_map, notes_entries, set_at>>
                   ELSE /\ Len(notes_entries) < MaxNotes
                        /\ notes_entries' =
                               insert_note_entry(day, c, u, normalize_notes_report(t))
                        /\ report_mode_map' = clear_mode(report_mode_map, c, u)
                        /\ set_at' = Unstamp({"report"}, c, u)
                        /\ hist' = Ran("on_text", c, u, "report", AgeOf("report", c, u))
       ELSE /\ UNCHANGED <<report_mode_map, full_mode_map, guided_full_map, daily_stats,
                           full_daily_stats, notes_entries, set_at>>
            /\ hist' = Ran("on_text", c, u,
                           IF role = ROLE_OWNERS_SILENT THEN "silent_reply" ELSE "ignored", 0)

\* int(s) of a command argument: an optional sign, then digits.
int(s) ==
    LET signed == s # <<>> /\ s[1] \in {"-", "+"}
        body   == IF signed THEN Tail(s) ELSE s
    IN  IF isdigit(body)
        THEN [ok |-> TRUE, v |-> (IF signed /\ s[1] = "-" THEN -1 ELSE 1) * int_of(body)]
        ELSE IntErr

\* The write of /setdaily and /edit; the write raising (db = 1) ends the
\* handler before its reply.  The sales column holds cents (the arguments
\* carry at most two decimals).
save_daily(op, c, u, day, sales, covers, db) ==
    IF db = 1
    THEN /\ hist' = Ran(op, c, u, "db_error", 0)
         /\ UNCHANGED daily_stats
    ELSE /\ daily_stats' =
                upsert_daily(day,
                             IF sales.scale = 0 THEN sales.n * 100
                             ELSE IF sales.scale = 1 THEN sales.n * 10 ELSE sales.n,
                             covers.v)
         /\ hist' = Ran(op, c, u, "saved", 0)

\* /setdaily SALES COVERS
setdaily(c, u, args, db) ==
    /\ UNCHANGED <<CUTOFF_HOUR, ret, now, chat_roles, owners_chat_ids, report_mode_map,
                   full_mode_map, guided_full_map, full_daily_stats, notes_entries, set_at>>
    /\ IF ~allow_sales_cmd(c, u)
       THEN /\ hist' = Ran("setdaily", c, u, "refused", 0)
            /\ UNCHANGED daily_stats
       ELSE IF Len(args) < 2 \/ ~float(args[1]).ok \/ ~int(args[2]).ok
       THEN /\ hist' = Ran("setdaily", c, u, "usage", 0)
            /\ UNCHANGED daily_stats
       ELSE save_daily("setdaily", c, u, business_day_today, float(args[1]), int(args[2]), db)

\* /edit YYYY-MM-DD SALES COVERS (the day argument as its three number fields)
edit(c, u, args, db) ==
    /\ UNCHANGED <<CUTOFF_HOUR, ret, now, chat_roles, owners_chat_ids, report_mode_map,
                   full_mode_map, guided_full_map, full_daily_stats, notes_entries, set_at>>
    /\ IF ~allow_sales_cmd(c, u)
       THEN /\ hist' = Ran("edit", c, u, "refused", 0)
            /\ UNCHANGED daily_stats
       ELSE IF \/ Len(args) < 3
               \/ parse_yyyy_mm_dd(args[1]) = ErrDate
               \/ ~float(args[2]).ok
               \/ ~int(args[3]).ok
       THEN /\ hist' = Ran("edit", c, u, "usage", 0)
            /\ UNCHANGED daily_stats
       ELSE save_daily("edit", c, u, parse_yyyy_mm_dd(args[1]), float(args[2]), int(args[3]), db)

\* An hour passes.
Tick ==
    /\ Hours24(now) - Hours24(InitNow) < MaxTicks
    /\ now' = IF now.hour < 23 THEN [now EXCEPT !.hour = now.hour + 1]
              ELSE [date |-> plus_days(now.date, 1), hour |-> 0]
    /\ UNCHANGED <<CUTOFF_HOUR, req, ret, chat_roles, owners_chat_ids, report_mode_map,
                   full_mode_map, guided_full_map, daily_stats, full_daily_stats,
                   notes_entries, hist, set_at>>

(***************************************************************************)
(* The calendar specification: one call of a calendar function on inputs   *)
(* drawn in Init, then the result is held in ret.                          *)
(***************************************************************************)
\* Calendar dates at the edges the arithmetic has to get right: month and
\* year ends, the leap day, and the days around it.
EdgeDates ==
    { date_new(y, m, d) : y \in {2024, 2025}, m \in 1..12, d \in {1, 15, 28, 29, 30, 31} }
        \ {ErrDate}

\* Days on which a period command is issued (the clock's date).
RefDates ==
    { Date(2024, 2, 29), Date(2024, 3, 1), Date(2025, 1, 1), Date(2025, 3, 1),
      Date(2026, 3, 31), Date(2026, 4, 1), Date(2028, 2, 29) }

\* Every sequence over S of length at most n.
RECURSIVE SeqsUpTo(_, _)
SeqsUpTo(S, n) ==
    IF n = 0 THEN {<<>>}
    ELSE LET shorter == SeqsUpTo(S, n - 1)
         IN  shorter \cup {Append(t, c) : t \in {x \in shorter : Len(x) = n - 1}, c \in S}

\* Period tokens (they come from context.args, which the transport splits on
\* whitespace, or from literals in the code).
Tokens == SeqsUpTo({"0", "1", "3", "M", "m", "Y", "-"}, MaxTokLen)

NoTs == [date |-> ErrDate, hour |-> 0]

Req(op, ts, arg, d, months, d2) ==
    [op |-> op, ts |-> ts, arg |-> arg, d |-> d, months |-> months, d2 |-> d2]

NoRet == [done |-> FALSE, date |-> ErrDate, spec |-> PError, period |-> Raised("")]

Ret(date, spec, period) ==
    [done |-> TRUE, date |-> date, spec |-> spec, period |-> period]

\* The bot right after main() built the application on an empty database.
BotInit ==
    /\ now = InitNow
    /\ chat_roles = <<>>
    /\ owners_chat_ids = <<>>
    /\ report_mode_map = <<>>
    /\ full_mode_map = <<>>
    /\ guided_full_map = <<>>
    /\ daily_stats = <<>>
    /\ full_daily_stats = <<>>
    /\ notes_entries = <<>>
    /\ hist = Ran("start", 0, 0, "", 0)
    /\ set_at = <<>>

CalInit ==
    /\ BotInit
    /\ ret = NoRet
    /\ \/ /\ CUTOFF_HOUR \in 0..23
          /\ \E d \in EdgeDates, h \in 0..23 :
                req = Req("business_day_for", [date |-> d, hour |-> h], <<>>, ErrDate, 0, ErrDate)
       \/ /\ CUTOFF_HOUR = DefaultCutoff
          /\ \E d \in RefDates, h \in {DefaultCutoff - 1, DefaultCutoff}, t \in Tokens :
                req = Req("period_ending_today", [date |-> d, hour |-> h], t, ErrDate, 0, ErrDate)
       \/ /\ CUTOFF_HOUR = DefaultCutoff
          /\ \E t \in Tokens :
                req = Req("parse_period_arg", NoTs, t, ErrDate, 0, ErrDate)
       \/ /\ CUTOFF_HOUR = DefaultCutoff
          /\ \E d \in EdgeDates, k \in (-MaxShift)..MaxShift :
                req = Req("add_months", NoTs, <<>>, d, k, ErrDate)
       \/ /\ CUTOFF_HOUR = DefaultCutoff
          /\ \E d \in RefDates \cup {ErrDate}, e \in RefDates \cup {ErrDate} :
                req = Req("range", NoTs, <<>>, d, 0, e)
       \/ /\ CUTOFF_HOUR = DefaultCutoff
          /\ \E d \in EdgeDates, h \in {DefaultCutoff - 1, DefaultCutoff} :
                req = Req("month", [date |-> d, hour |-> h], <<>>, ErrDate, 0, ErrDate)

CallBusinessDayFor ==
    /\ req.op = "business_day_for" /\ ~ret.done
    /\ ret' = Ret(business_day_for(req.ts), PError, Raised(""))
    /\ UNCHANGED <<CUTOFF_HOUR, req>>
    /\ UNCHANGED botvars

CallPeriodEndingToday ==
    /\ req.op = "period_ending_today" /\ ~ret.done
    /\ ret' = Ret(business_day_for(req.ts), parse_period_arg(req.arg),
                  period_ending_today(req.arg, req.ts))
    /\ UNCHANGED <<CUTOFF_HOUR, req>>
    /\ UNCHANGED botvars

CallParsePeriodArg ==
    /\ req.op = "parse_period_arg" /\ ~ret.done
    /\ ret' = Ret(ErrDate, parse_period_arg(req.arg), Raised(""))
    /\ UNCHANGED <<CUTOFF_HOUR, req>>
    /\ UNCHANGED botvars

CallAddMonths ==
    /\ req.op = "add_months" /\ ~ret.done
    /\ ret' = Ret(add_months(req.d, req.months), PError, Raised(""))
    /\ UNCHANGED <<CUTOFF_HOUR, req>>
    /\ UNCHANGED botvars

CallRange ==
    /\ req.op = "range" /\ ~ret.done
    /\ ret' = Ret(ErrDate, PError, range_period(req.d, req.d2))
    /\ UNCHANGED <<CUTOFF_HOUR, req>>
    /\ UNCHANGED botvars

CallMonth ==
    /\ req.op = "month" /\ ~ret.done
    /\ ret' = Ret(business_day_for(req.ts), PError, month_period(req.ts))
    /\ UNCHANGED <<CUTOFF_HOUR, req>>
    /\ UNCHANGED botvars

CalNext ==
    \/ CallBusinessDayFor
    \/ CallPeriodEndingToday
    \/ CallParsePeriodArg
    \/ CallAddMonths
    \/ CallRange
    \/ CallMonth

SpecCal == CalInit /\ [][CalNext]_vars

(***************************************************************************)
(* The bot specifications.  One working chat (1); user 1 is on the         *)
(* allow-list, user 2 is staff.  Roles are assigned by user 1.             *)
(***************************************************************************)
NoReq == Req("none", NoTs, <<>>, ErrDate, 0, ErrDate)

Init ==
    /\ CUTOFF_HOUR = DefaultCutoff
    /\ req = NoReq
    /\ ret = NoRet
    /\ BotInit

\* A database outcome db names the write of the handler's run that raises
\* (0: none).  Texts of the notes flows: notes, small talk, a full report.
Next ==
    \/ \E role \in {ROLE_MANAGER_INPUT, ROLE_OWNERS_SILENT}, db \in {0, 1} :
            setchatrole_cmd(1, 1, role, db)
    \/ \E tail \in {"", "plain"}, db \in {0, 1} : report(1, 2, tail, db)
    \/ cancelreport(1, 2)
    \/ setfull(1, 2)
    \/ cancelfull(1, 2)
    \/ \E t \in {"notes_es", "plain", "full"}, db \in 0..2 : on_text(1, 2, t, db)
    \/ Tick

Spec == Init /\ [][Next]_vars

\* Texts of the full-report flows.  The date text and the report blocks are
\* sent as the answer to the Day question, to a completed preview, or outside
\* the guided flow; the notes report is sent while both the paste and the
\* /report entry are pending, and the /report flow receives the plain text.
NextFull ==
    \/ \E role \in {ROLE_MANAGER_INPUT, ROLE_OWNERS_REQUESTS} : setchatrole_cmd(1, 1, role, 0)
    \/ setfull(1, 2)
    \/ setfullguided(1, 2)
    \/ cancelfull(1, 2)
    \/ \E db \in 0..2 : confirmfull(1, 2, db)
    \/ report(1, 2, "", 0)
    \/ \E t \in {"full_es", "full_bad", "plain", "num", "date", "notes_es"}, db \in 0..2 :
            /\ t \in {"date", "full_es", "full_bad"} =>
                  (mode_on(guided_full_map, 1, 2) =>
                      get_mode(guided_full_map, 1, 2).step \in {0, Len(GUIDED_STEPS)})
            /\ t = "notes_es" => mode_on(full_mode_map, 1, 2) /\ mode_on(report_mode_map, 1, 2)
            /\ flow(1, 2, t) = "report" => t = "plain"
            /\ on_text(1, 2, t, db)

SpecFull == Init /\ [][NextFull]_vars

(***************************************************************************)
(* The daily-records specification: /setdaily, /edit and pasted full       *)
(* reports write the two tables while roles change and the clock passes    *)
(* the cutoff.  req holds the last sales command with its arguments.       *)
(***************************************************************************)
NextDaily ==
    \/ \E role \in {ROLE_MANAGER_INPUT, ROLE_OWNERS_REQUESTS} : setchatrole_cmd(1, 1, role, 0)
    \/ \E args \in {<<<<"1", "0", "0">>, <<"1", "1", "8">>>>,
                     <<<<"2", "4", "5", "0", ".", "5">>, <<"1", "1", "8">>>>,
                     <<<<"1", ",", "5">>, <<"1", "1", "8">>>>,
                     <<<<"1", "0", "0">>, <<"x">>>>,
                     <<<<"1", "0", "0">>>>},
           db \in {0, 1} :
            /\ req' = [op |-> "setdaily", args |-> args]
            /\ setdaily(1, 2, args, db)
    \/ \E args \in {<<<<2026, 1, 24>>, <<"1", "0", "0">>, <<"1", "1", "8">>>>,
                     <<<<2026, 1, 24>>, <<"2", "4", "5", "0", ".", "5">>, <<"1", "1", "8">>>>,
                     <<<<2026, 1, 23>>, <<"1", "0", "0">>, <<"1", "1", "8">>>>,
                     <<<<2026, 2, 30>>, <<"1", "0", "0">>, <<"1", "1", "8">>>>,
                     <<<<2026, 1, 24>>, <<"1", "0", "0">>>>},
           db \in {0, 1} :
            /\ req' = [op |-> "edit", args |-> args]
            /\ edit(1, 2, args, db)
    \/ setfull(1, 2)
    \/ \E db \in 0..2 : on_text(1, 2, "full", db)
    \/ Tick

SpecDaily == Init /\ [][NextDaily]_vars

(***************************************************************************)
(* The pairs specification: two staff users in two chats whose numbers     *)
(* spell the same digits, (1, 12) and (11, 2), run the pending-input       *)
(* flows side by side.  The date text answers the guided Day question and  *)
(* the keyword-free report goes to the paste flow.                         *)
(***************************************************************************)
Pairs == {<<1, 12>>, <<11, 2>>}

NextPairs ==
    \/ \E c \in {1, 11} : setchatrole_cmd(c, 1, ROLE_MANAGER_INPUT, 0)
    \/ \E p \in Pairs : report(p[1], p[2], "", 0)
    \/ \E p \in Pairs : cancelreport(p[1], p[2])
    \/ \E p \in Pairs : setfull(p[1], p[2])
    \/ \E p \in Pairs : setfullguided(p[1], p[2])
    \/ \E p \in Pairs : cancelfull(p[1], p[2])
    \/ \E p \in Pairs : confirmfull(p[1], p[2], 0)
    \/ \E p \in Pairs, t \in {"plain", "date", "full_nokw"} :
            /\ t = "date" => mode_on(guided_full_map, p[1], p[2])
            /\ t = "full_nokw" => mode_on(full_mode_map, p[1], p[2])
            /\ on_text(p[1], p[2], t, 0)

SpecPairs == Init /\ [][NextPairs]_vars

(***************************************************************************)
(* The owners specification: an admin and a staff user register and        *)
(* remove owners chats in two chats, and the two scheduled jobs post to    *)
(* the chats owners_silent_chat_ids() returns.  ret holds the job that ran *)
(* last and the chats it posted to.                                        *)
(***************************************************************************)
NextOwners ==
    \/ \E c \in {1, 2}, role \in {ROLE_OWNERS_SILENT, ROLE_MANAGER_INPUT} :
            setchatrole_cmd(c, 1, role, 0)
    \/ \E c \in {1, 2}, u \in {1, 2} : setowners(c, u)
    \/ \E c \in {1, 2}, u \in {1, 2} : removeowners(c, u)
    \/ \E job \in {"send_daily_post_to_owners", "send_weekly_digest"} :
            /\ ret' = [job |-> job, chats |-> owners_silent_chat_ids]
            /\ hist' = Ran(job, 0, 0, IF owners_silent_chat_ids = <<>> THEN "none" ELSE "sent", 0)
            /\ UNCHANGED <<CUTOFF_HOUR, req>>
            /\ UNCHANGED <<now, chat_roles, owners_chat_ids, report_mode_map, full_mode_map,
                           guided_full_map, daily_stats, full_daily_stats, notes_entries, set_at>>

SpecOwners == Init /\ [][NextOwners]_vars

(***************************************************************************)
(* The text specification: one call of _num, of parse_full_report_block,   *)
(* of tokenize or of looks_like_notes_report on a text drawn from the      *)
(* literals, report blocks and notes below.                                *)
(***************************************************************************)
\* Numeric literals, and amounts that carry the three-character literal or
\* the euro sign.
Literals ==
    SeqsUpTo({"0", "1", "5", ".", ",", "-", " ", "€"}, MaxLitLen)
    \cup {<<"5">> \o EuroLiteral, EuroLiteral \o <<"1", ",", "5">>,
          <<"1", " ">> \o EuroLiteral \o <<"5">>,
          <<"1", ".", "0", "1", "5", ",", "5", " ", "€">>}

\* Lines of report blocks, as typed.
T ==
    [day_dmy |-> <<"D", "a", "y", ":", " ", "2", "4", "/", "0", "1", "/", "2", "0", "2", "6">>,
     day_iso |-> <<"D", "a", "y", ":", " ", "2", "0", "2", "6", "-", "0", "1", "-", "2", "4">>,
     day_other |-> <<"D", "a", "y", ":", " ", "2", "5", "/", "0", "1", "/", "2", "0", "2", "6">>,
     day_empty |-> <<"D", "a", "y", ":">>,
     day_bare |-> <<"D", "a", "y">>,
     day_dashes |-> <<"D", "a", "y", ":", " ", "2", "4", "-", "0", "1", "-", "2", "0", "2", "6">>,
     day_nocolon |-> <<"d", "a", "y", " ", "2", "4", "/", "0", "1", "/", "2", "0", "2", "6">>,
     day_feb31 |-> <<"D", "a", "y", ":", " ", "3", "1", "/", "0", "2", "/", "2", "0", "2", "6">>,
     total_day |-> <<"T", "o", "t", "a", "l", " ", "S", "a", "l", "e", "s", " ", "D", "a", "y", ":", " ", "7", "1", "9", "9", ",", "5", "0">>,
     total |-> <<"T", "o", "t", "a", "l", " ", "S", "a", "l", "e", "s", ":", " ", "1", "0", "0">>,
     total_junk |-> <<"T", "o", "t", "a", "l", " ", "S", "a", "l", "e", "s", " ", "D", "a", "y", ":", " ", "a", "b", "c">>,
     total_thousands |-> <<"T", "o", "t", "a", "l", " ", "S", "a", "l", "e", "s", " ", "D", "a", "y", ":", " ", "7", ".", "1", "9", "9", ",", "5", "0">>,
     total_euro |-> <<"T", "o", "t", "a", "l", " ", "S", "a", "l", "e", "s", " ", "D", "a", "y", ":", " ", "1", "0", "0", " ", "€">>,
     visa |-> <<"V", "i", "s", "a", ":", " ", "6", "4", "0", "0", ",", "3", "0">>,
     visa_late |-> <<"V", "i", "s", "a", ":", " ", "1">>,
     cash |-> <<"C", "a", "s", "h", ":", " ", "7", "9", "9", ",", "2", "0">>,
     tips |-> <<"T", "i", "p", "s", ":", " ", "1", "0", "3", ",", "6", "0">>,
     tips_late |-> <<"T", "i", "p", "s", ":", " ", "9">>,
     lunch |-> <<"L", "u", "n", "c", "h", ":", " ", "2", "3", "4", "1", ",", "3", "0">>,
     lunch_empty |-> <<"L", "u", "n", "c", "h", ":">>,
     dinner |-> <<"D", "i", "n", "n", "e", "r", ":", " ", "4", "8", "5", "8", ",", "2", "0">>,
     pax_l |-> <<"P", "a", "x", ":", " ", "5", "0">>,
     walk_l |-> <<"W", "a", "l", "k", " ", "i", "n", ":", " ", "3">>,
     noshow_l |-> <<"N", "o", " ", "s", "h", "o", "w", ":", " ", "7">>,
     pax_l_nocolon |-> <<"P", "a", "x", " ", "5", "0">>,
     pax_l_junk |-> <<"P", "a", "x", ":", " ", "a", "b", "c">>,
     walk_l_alt |-> <<"w", "a", "l", "k", "-", "i", "n", ":", " ", "3">>,
     noshow_l_alt |-> <<"N", "o", "S", "h", "o", "w", ":", " ", "7">>,
     pax_d |-> <<"P", "a", "x", ":", " ", "1", "0", "6">>,
     walk_d |-> <<"W", "a", "l", "k", " ", "i", "n", ":", " ", "2">>,
     noshow_d |-> <<"N", "o", " ", "s", "h", "o", "w", ":", " ", "4">>,
     filler |-> <<"o", "k">>]

\* The report blocks: the Day and Total Sales lines vary one at a time (or
\* both are absent), then the Visa, Cash and Tips lines, then the two sections
\* in either order; and blocks with k filler lines between the Lunch heading
\* and its sub-fields.
Blocks ==
    LET DayOpts ==
            {<<>>, <<T.day_dmy>>, <<T.day_iso>>, <<T.day_empty>>, <<T.day_bare>>, <<T.day_dashes>>,
             <<T.day_nocolon>>, <<T.day_feb31>>, <<T.day_other, T.day_dmy>>}
        TotalOpts ==
            {<<>>, <<T.total_day>>, <<T.total>>, <<T.total, T.total_day>>, <<T.total_day, T.total>>,
             <<T.total_junk>>, <<T.total_thousands>>, <<T.total_euro>>}
        HeadOpts ==
            {day \o <<T.total_day>> : day \in DayOpts}
            \cup {<<T.day_dmy>> \o total : total \in TotalOpts}
            \cup {<<>>}
        TopOpts ==
            {<<T.visa, T.cash, T.tips>>, <<T.cash, T.tips>>, <<T.visa, T.visa_late, T.cash, T.tips>>,
             <<T.tips, T.visa, T.cash, T.tips_late>>,
             <<T.visa_late, T.tips_late, T.cash, T.tips, T.visa>>}
        LunchOpts ==
            {<<>>,
             <<T.lunch, T.pax_l, T.walk_l, T.noshow_l>>,
             <<T.lunch, T.noshow_l, T.walk_l, T.pax_l>>,
             <<T.lunch, T.walk_l, T.noshow_l>>,
             <<T.lunch, T.pax_l, T.noshow_l>>,
             <<T.lunch, T.pax_l, T.walk_l>>,
             <<T.lunch, T.pax_l_nocolon, T.walk_l, T.noshow_l>>,
             <<T.lunch, T.pax_l_junk, T.walk_l, T.noshow_l>>,
             <<T.lunch, T.pax_l, T.walk_l_alt, T.noshow_l_alt>>,
             <<T.lunch_empty, T.pax_l, T.walk_l, T.noshow_l>>}
        DinnerOpts ==
            {<<>>,
             <<T.dinner, T.pax_d, T.walk_d, T.noshow_d>>,
             <<T.dinner, T.walk_d, T.noshow_d>>,
             <<T.dinner, T.pax_d, T.walk_d>>}
        Fillers(k) == [i \in 1..k |-> IF i % 2 = 0 THEN <<>> ELSE T.filler]
        Sections(lunch, dinner, lunch_first) ==
            IF lunch_first THEN lunch \o <<<<>>>> \o dinner ELSE dinner \o <<<<>>>> \o lunch
    IN  {head \o top \o <<<<>>>> \o Sections(lunch, dinner, lf) :
            head \in HeadOpts, top \in TopOpts,
            lunch \in LunchOpts, dinner \in DinnerOpts, lf \in BOOLEAN}
        \cup
        {<<T.day_dmy, T.total_day>>
            \o Sections(<<T.lunch>> \o Fillers(k) \o <<T.pax_l, T.walk_l, T.noshow_l>>, dinner, lf) :
            k \in 1..MaxFiller, dinner \in DinnerOpts, lf \in BOOLEAN}

\* Notes as typed: up to MaxWords words, a separator between two words.
NoteLines ==
    LET NoteWords ==
            {<<"b", "a", "d">>, <<"S", "t", "a", "f", "f">>,
             <<"i", "n", "c", "i", "d", "e", "n", "t", "s">>, <<"T", "h", "e">>,
             <<"t", "e", "s", "t">>, <<"o", "k">>, <<"S", "l", "o", "w">>, <<"x", "9", "!">>}
        RECURSIVE NotesUpTo(_)
        NotesUpTo(n) ==
            IF n = 1 THEN NoteWords
            ELSE NotesUpTo(n - 1)
                 \cup {t \o sep \o w : t \in NotesUpTo(n - 1),
                                        sep \in {<<" ">>, <<",", " ">>}, w \in NoteWords}
    IN  NotesUpTo(MaxWords)

\* End-of-shift notes as typed, line by line: each of the four sections is
\* absent, headed in English, headed in Spanish, or mentioned without ':'.
NoteReports ==
    LET IncidentOpts == {<<>>, <<<<"I", "n", "c", "i", "d", "e", "n", "t", "s", ":", " ", "n", "o", "n", "e">>>>, <<<<"I", "n", "c", "i", "d", "e", "n", "c", "i", "a", "s", ":", " ", "n", "o">>>>, <<<<"i", "n", "c", "i", "d", "e", "n", "t", "s", " ", "n", "o", "n", "e">>>>}
        StaffOpts == {<<>>, <<<<"S", "t", "a", "f", "f", ":", " ", "o", "k">>>>, <<<<"P", "e", "r", "s", "o", "n", "a", "l", ":", " ", "o", "k">>>>, <<<<"s", "t", "a", "f", "f", " ", "o", "k">>>>}
        SoldOutOpts == {<<>>, <<<<"S", "o", "l", "d", " ", "o", "u", "t", ":", " ", "t", "u", "n", "a">>>>, <<<<"a", "g", "o", "t", "a", "d", "o", " ", "e", "l", " ", "p", "u", "l", "p", "o">>>>, <<<<"s", "o", "l", "d", " ", "o", "u", "t", " ", "t", "u", "n", "a">>>>}
        ComplaintOpts == {<<>>, <<<<"C", "o", "m", "p", "l", "a", "i", "n", "t", "s", ":", " ", "n", "o", "n", "e">>>>, <<<<"Q", "u", "e", "j", "a", "s", ":", " ", "n", "o">>>>, <<<<"c", "o", "m", "p", "l", "a", "i", "n", "t", "s", " ", "n", "o", "n", "e">>>>}
    IN  {i \o st \o so \o c :
            i \in IncidentOpts, st \in StaffOpts, so \in SoldOutOpts, c \in ComplaintOpts}

\* The message text of lines typed one under the other.
RECURSIVE JoinLines(_)
JoinLines(lines) ==
    IF lines = <<>> THEN <<>>
    ELSE IF Len(lines) = 1 THEN lines[1]
    ELSE lines[1] \o <<"\n">> \o JoinLines(Tail(lines))

TReq(op, s, text) == [op |-> op, s |-> s, text |-> text]

TNoRet == [done |-> FALSE, num |-> NumErr, parsed |-> Failed(""), tokens |-> <<>>, notes |-> FALSE]

TextInit ==
    /\ BotInit
    /\ CUTOFF_HOUR = DefaultCutoff
    /\ ret = TNoRet
    /\ \/ \E s \in Literals : req = TReq("_num", s, <<>>)
       \/ \E text \in Blocks : req = TReq("parse_full_report_block", <<>>, text)
       \/ \E s \in NoteLines : req = TReq("tokenize", s, <<>>)
       \/ \E text \in NoteReports : req = TReq("looks_like_notes_report", JoinLines(text), text)

CallNum ==
    /\ req.op = "_num" /\ ~ret.done
    /\ ret' = [TNoRet EXCEPT !.done = TRUE, !.num = _num(req.s)]
    /\ UNCHANGED <<CUTOFF_HOUR, req>>
    /\ UNCHANGED botvars

CallParseFullReportBlock ==
    /\ req.op = "parse_full_report_block" /\ ~ret.done
    /\ ret' = [TNoRet EXCEPT !.done = TRUE, !.parsed = parse_full_report_text(req.text)]
    /\ UNCHANGED <<CUTOFF_HOUR, req>>
    /\ UNCHANGED botvars

CallTokenize ==
    /\ req.op = "tokenize" /\ ~ret.done
    /\ ret' = [TNoRet EXCEPT !.done = TRUE, !.tokens = tokenize(req.s)]
    /\ UNCHANGED <<CUTOFF_HOUR, req>>
    /\ UNCHANGED botvars

TextNext ==
    \/ CallNum
    \/ CallParseFullReportBlock
    \/ CallTokenize
    \/ /\ req.op = "looks_like_notes_report" /\ ~ret.done
       /\ ret' = [TNoRet EXCEPT !.done = TRUE, !.notes = looks_like_notes_chars(req.s)]
       /\ UNCHANGED <<CUTOFF_HOUR, req>>
       /\ UNCHANGED botvars

SpecText == TextInit /\ [][TextNext]_vars

(***************************************************************************)
(* Reference definitions for the calendar claims, written from the         *)
(* calendar itself and not from the code's ordinal arithmetic.             *)
(***************************************************************************)
\* The calendar day before d.
Yesterday(d) ==
    IF d.day > 1 THEN Date(d.year, d.month, d.day - 1)
    ELSE IF d.month > 1 THEN Date(d.year, d.month - 1, DaysInMonth(d.year, d.month - 1))
    ELSE Date(d.year - 1, 12, 31)

\* The calendar day after d.
Tomorrow(d) ==
    IF d.day < DaysInMonth(d.year, d.month) THEN Date(d.year, d.month, d.day + 1)
    ELSE IF d.month < 12 THEN Date(d.year, d.month + 1, 1)
    ELSE Date(d.year + 1, 1, 1)

\* Months since year 0 of the month d lies in.
MonthIndex(d) == d.year * 12 + (d.month - 1)

\* Position of d in its year, counting the days of the months before it.
DayOfYear(d) ==
    Cardinality({mk \in (1..12) \X (1..31) :
                    mk[1] < d.month /\ mk[2] <= DaysInMonth(d.year, mk[1])}) + d.day

\* Number of calendar days from a to b (b not before a), counting the leap
\* years in between.
DaysBetween(a, b) ==
    365 * (b.year - a.year)
    + Cardinality({y \in a.year..(b.year - 1) : IsLeap(y)})
    + DayOfYear(b) - DayOfYear(a)

\* Value of a digit string read left to right.
RECURSIVE Decimal(_, _)
Decimal(acc, s) ==
    IF s = <<>> THEN acc ELSE Decimal(acc * 10 + DigitVal(Head(s)), Tail(s))

AllDigits(s) == \A i \in 1..Len(s) : s[i] \in Digits

PeriodCall == ret.done /\ req.op = "period_ending_today"

(***************************************************************************)
(* C1: for every timestamp ts and cutoff hour c in 0..23, business_day_for *)
(* returns the previous calendar date when ts.hour < c and ts's own date   *)
(* otherwise (hour = c belongs to the current date).                       *)
(***************************************************************************)
C1_BusinessDay ==
    (ret.done /\ req.op = "business_day_for") =>
        /\ CUTOFF_HOUR \in 0..23
        /\ ret.date = IF req.ts.hour < CUTOFF_HOUR
                      THEN Yesterday(req.ts.date)
                      ELSE req.ts.date

\* A call one hour before the cutoff on January 1st: the result is Dec 31 of
\* the year before.
C1_Witness ==
    /\ ret.done /\ req.op = "business_day_for"
    /\ req.ts.hour = CUTOFF_HOUR - 1
    /\ req.ts.date = Date(2025, 1, 1)
    /\ ret.date = Date(2024, 12, 31)

(***************************************************************************)
(* C2: saving a full daily report (auto-detected text, /setfull paste or   *)
(* /confirmfull) is all-or-nothing: in every step, also one in which the   *)
(* parse or either write fails, each day's full_daily_stats row and        *)
(* daily_stats row are both left as they were, or both hold the same       *)
(* report.                                                                 *)
(***************************************************************************)
Summary(row) ==
    [sales |-> row["total_sales"], covers |-> row["lunch_pax"] + row["dinner_pax"]]

C2_AllOrNothing ==
    [][\A d \in DOMAIN full_daily_stats' \cup DOMAIN daily_stats' :
          \/ /\ d \in DOMAIN full_daily_stats <=> d \in DOMAIN full_daily_stats'
             /\ d \in DOMAIN full_daily_stats => full_daily_stats'[d] = full_daily_stats[d]
             /\ d \in DOMAIN daily_stats <=> d \in DOMAIN daily_stats'
             /\ d \in DOMAIN daily_stats => daily_stats'[d] = daily_stats[d]
          \/ /\ d \in DOMAIN full_daily_stats'
             /\ d \in DOMAIN daily_stats'
             /\ daily_stats'[d] = Summary(full_daily_stats'[d])]_vars

(***************************************************************************)
(* C3: once a text of a (chat, user) pair has been saved as a note, the    *)
(* pair has no pending /report entry, and once it has been saved as a full *)
(* report, the pair has no pending /setfull entry; this on every path of   *)
(* on_text that saves, the auto-detect paths included.                     *)
(***************************************************************************)
C3_SavedTextClearsPending ==
    hist.op = "on_text" =>
        /\ hist.path \in {"notes_auto", "report"} =>
               Key(hist.chat, hist.user) \notin DOMAIN report_mode_map
        /\ hist.path \in {"full_auto", "paste"} =>
               Key(hist.chat, hist.user) \notin DOMAIN full_mode_map

(***************************************************************************)
(* C4: a pending entry older than the TTL is never consumed: whenever a    *)
(* text was taken as the pending /report, /setfull or /setfullguided       *)
(* input, the entry it was taken for was at most pending_ttl_minutes old.  *)
(***************************************************************************)
C4_ExpiredNeverConsumed ==
    (hist.op = "on_text" /\ hist.path \in {"report", "paste", "guided"}) =>
        60 * hist.age <= pending_ttl_minutes

(***************************************************************************)
(* C5: every Period the program builds has start <= end: for every token   *)
(* parse_period_arg accepts (also "0", "0M", "0Y") period_ending_today     *)
(* returns start <= end, and so do /range and /month.                      *)
(***************************************************************************)
C5_StartLeEnd ==
    (ret.done /\ req.op \in {"period_ending_today", "range", "month"}
              /\ ret.period.err = "") =>
        date_le(ret.period.start, ret.period.end)

(***************************************************************************)
(* C6 as stated: for every integer spec N that parse_period_arg accepts,   *)
(* end is the current business day, start = end - (N-1) days and the       *)
(* period spans exactly N days.                                            *)
(***************************************************************************)
C6_SpansNDays ==
    (PeriodCall /\ ret.spec.kind = "int") =>
        /\ ret.period.err = ""
        /\ ret.period.end = ret.date
        /\ toordinal(ret.period.end) - toordinal(ret.period.start) = ret.spec.n - 1
        /\ daterange_days(ret.period) = ret.spec.n

(***************************************************************************)
(* C6 amended: for every integer spec N >= 1, end is the current business  *)
(* day, start = end - (N-1) days and the period spans exactly N days; for  *)
(* N = 0 the period is the single day [end, end] (daterange_days = 1).     *)
(***************************************************************************)
C6_SpansNDaysFromOne ==
    (PeriodCall /\ ret.spec.kind = "int") =>
        /\ ret.period.err = ""
        /\ ret.period.end = ret.date
        /\ date_le(ret.period.start, ret.period.end)
        /\ IF ret.spec.n >= 1
           THEN /\ DaysBetween(ret.period.start, ret.period.end) = ret.spec.n - 1
                /\ daterange_days(ret.period) = ret.spec.n
           ELSE /\ ret.period.start = ret.period.end
                /\ daterange_days(ret.period) = 1

\* "/last 30" issued on 2026-03-31 after the cutoff: 2026-03-02 .. 2026-03-31.
C6_Witness ==
    /\ PeriodCall
    /\ req.arg = <<"3", "0">>
    /\ ret.period = Period(Date(2026, 3, 2), Date(2026, 3, 31))

(***************************************************************************)
(* C7: for a month spec (M, n), start = add_months(end, -n) + 1 day with   *)
(* end the reference business day; reference day 2026-03-31 with "1M"      *)
(* gives start 2026-03-01 and end 2026-03-31.                              *)
(***************************************************************************)
C7_MonthPeriod ==
    (PeriodCall /\ ret.spec.kind = "unit" /\ ret.spec.unit = "M") =>
        /\ ret.period.err = ""
        /\ ret.period.end = ret.date
        /\ LET shifted == Yesterday(ret.period.start)
           IN  /\ MonthIndex(shifted) = MonthIndex(ret.period.end) - ret.spec.n
               /\ shifted.day = Min(ret.period.end.day,
                                    DaysInMonth(shifted.year, shifted.month))
        /\ (ret.date = Date(2026, 3, 31) /\ ret.spec.n = 1) =>
               ret.period = Period(Date(2026, 3, 1), Date(2026, 3, 31))

\* "/last 1M" on business day 2026-03-31.
C7_Witness ==
    /\ PeriodCall
    /\ req.arg = <<"1", "M">>
    /\ ret.date = Date(2026, 3, 31)
    /\ ret.period = Period(Date(2026, 3, 1), Date(2026, 3, 31))

(***************************************************************************)
(* C8: for a year spec (Y, n) the year shift never fails for a valid       *)
(* reference day: from Feb 29 into a non-leap target year the shifted date *)
(* clamps to Feb 28, so start = Feb 28 of the target year + 1 day.         *)
(***************************************************************************)
C8_YearShiftClamps ==
    (PeriodCall /\ ret.spec.kind = "unit" /\ ret.spec.unit = "Y"
                /\ ret.date.year - ret.spec.n >= 1) =>
        /\ ret.period.err = ""
        /\ (ret.date.month = 2 /\ ret.date.day = 29 /\ ~IsLeap(ret.date.year - ret.spec.n)) =>
               ret.period.start = Tomorrow(Date(ret.date.year - ret.spec.n, 2, 28))

C10_TokenShapes ==
    (ret.done /\ req.op \in {"parse_period_arg", "period_ending_today"}) =>
        LET t    == req.arg
            body == SubSeq(t, 1, Len(t) - 1)
        IN  IF Len(t) >= 1 /\ AllDigits(t)
            THEN ret.spec = PInt(Decimal(0, t))
            ELSE IF Len(t) >= 2 /\ AllDigits(body) /\ t[Len(t)] \in {"M", "m", "Y", "y"}
            THEN ret.spec = PUnit(IF t[Len(t)] \in {"M", "m"} THEN "M" ELSE "Y",
                                  Decimal(0, body))
            ELSE ret.spec = PError

\* The lower-case token "3m" is accepted as ("M", 3).
C10_Witness ==
    /\ ret.done /\ req.op = "parse_period_arg"
    /\ req.arg = <<"3", "m">>
    /\ ret.spec = PUnit("M", 3)

(***************************************************************************)
(* Reference definitions for the claims about report blocks.              *)
(***************************************************************************)
ParseCall == ret.done /\ req.op = "parse_full_report_block"

\* Whether some line of the text starts with the label, in any case.
HasLine(text, label) ==
    \E i \in 1..Len(text) : StartsWith(Lower(Strip(text[i])), Lower(label))

RECURSIVE Pow10(_)
Pow10(k) == IF k = 0 THEN 1 ELSE 10 * Pow10(k - 1)

\* Sum of two amounts.
AddNum(a, b) ==
    LET sc == IF a.scale >= b.scale THEN a.scale ELSE b.scale
    IN  Num(a.n * Pow10(sc - a.scale) + b.n * Pow10(sc - b.scale), sc)

\* The Day line, the Lunch section and the Dinner section are all in order.
RestInOrder(text) ==
    /\ HasLine(text, L.day)
    /\ parse_date_text(find_line(splitlines(text), <<L.day>>).val).err = ""
    /\ parse_section(splitlines(text), "Lunch").err = ""
    /\ parse_section(splitlines(text), "Dinner").err = ""

(***************************************************************************)
(* C11: when a report block has no Total Sales line but the Lunch and the  *)
(* Dinner heading both carry a sales value (and the rest of the block is   *)
(* in order), parse_full_report_block succeeds with total_sales =          *)
(* lunch_sales + dinner_sales.                                             *)
(***************************************************************************)
C11_TotalDerived ==
    (ParseCall /\ ~HasLine(req.text, L.total_sales) /\ RestInOrder(req.text)) =>
        /\ ret.parsed.err = ""
        /\ ret.parsed.d.total_sales =
               AddNum(ret.parsed.d.lunch_sales, ret.parsed.d.dinner_sales)

\* Position of the heading of section S among the lines t, 0 when there is
\* none.
HeadingAt(t, S) ==
    LET hits == {i \in 1..Len(t) :
                    StartsWith(Lower(Strip(t[i])), Lower(SectionLabel(S)) \o <<":">>)}
    IN  IF hits = {} THEN 0 ELSE CHOOSE i \in hits : \A k \in hits : i <= k

\* The lines of S's window: after its heading, at most nine lines on, and
\* before the next service heading.
Window(t, S) ==
    LET h     == HeadingAt(t, S)
        heads == {k \in 1..Len(t) : IsHeading(Strip(t[k]))}
    IN  IF h = 0 THEN {}
        ELSE {j \in (h + 1)..Min(h + 9, Len(t)) : \A k \in heads : ~(h < k /\ k < j)}

SubLabels ==
    [pax |-> {L.pax}, walkins |-> L.walk_in, noshows |-> L.no_show]

\* The lines of the window win that carry sub-field f.
SubLinesIn(t, win, f) ==
    {j \in win : \E w \in SubLabels[f] : StartsWith(Lower(Strip(t[j])), w)}

SubLines(text, S, f) ==
    LET t == splitlines(text) IN SubLinesIn(t, Window(t, S), f)

SomeSubMissing(text, S) ==
    LET t   == splitlines(text)
        win == Window(t, S)
    IN  HeadingAt(t, S) > 0 /\ \E f \in DOMAIN SubLabels : SubLinesIn(t, win, f) = {}

\* Everything the parser reads before it looks for S's missing sub-fields
\* is in order.
InOrderBefore(text, S) ==
    LET t   == splitlines(text)
        win == Window(t, S)
    IN  /\ HasLine(text, L.day)
        /\ parse_date_text(find_line(t, <<L.day>>).val).err = ""
        /\ _num(or_default(find_line(t, <<L.total_sales_day, L.total_sales>>), <<>>)).ok
        /\ _num(or_default(find_line(t, <<L.visa>>), <<"0">>)).ok
        /\ _num(or_default(find_line(t, <<L.cash>>), <<"0">>)).ok
        /\ _num(or_default(find_line(t, <<L.tips>>), <<"0">>)).ok
        /\ S = "Dinner" => parse_section(t, "Lunch").err = ""
        /\ _num(Strip(AfterColon(Strip(t[HeadingAt(t, S)])))).ok
        /\ \A f \in DOMAIN SubLabels : \A j \in SubLinesIn(t, win, f) :
               /\ ColonAt(Strip(t[j])) > 0
               /\ _int(AfterColon(Strip(t[j]))).ok

(***************************************************************************)
(* C12 as stated: for each service section S, if one of Pax, Walk in,      *)
(* No show is missing from S's window, parse_full_report_block fails with  *)
(* the incomplete-section failure that names S.                            *)
(***************************************************************************)
C12_IncompleteNamesSection ==
    ParseCall =>
        \A S \in {"Lunch", "Dinner"} :
            SomeSubMissing(req.text, S) =>
                ret.parsed.err = "Incomplete " \o S \o " fields"

(***************************************************************************)
(* C12 amended: for each service section S, if one of Pax, Walk in,        *)
(* No show is missing from S's window, parse_full_report_block returns no  *)
(* record; the failure is the incomplete-section failure naming S whenever *)
(* everything the parser reads before that check is in order.              *)
(***************************************************************************)
C12_IncompleteSection ==
    ParseCall =>
        \A S \in {"Lunch", "Dinner"} :
            SomeSubMissing(req.text, S) =>
                /\ ret.parsed.err # ""
                /\ ret.parsed.d = NoDict
                /\ InOrderBefore(req.text, S) =>
                       ret.parsed.err = "Incomplete " \o S \o " fields"

\* A block whose Dinner section lacks its Pax line, all else in order.
C12_Witness ==
    /\ ParseCall
    /\ SubLines(req.text, "Dinner", "pax") = {}
    /\ SubLines(req.text, "Dinner", "walkins") # {}
    /\ InOrderBefore(req.text, "Dinner")
    /\ ret.parsed.err = "Incomplete Dinner fields"

\* The value of the block's Day line: of the first line that starts with
\* "day", the text after its ':' (after the label when it has no ':');
\* empty when there is no such line.
DayValue(text) ==
    LET t    == splitlines(text)
        hits == {i \in 1..Len(t) : StartsWith(Lower(Strip(t[i])), Lower(L.day))}
        raw  == Strip(t[CHOOSE i \in hits : \A k \in hits : i <= k])
    IN  IF hits = {} THEN <<>>
        ELSE IF Count(raw, ":") > 0 THEN Strip(AfterColon(raw))
        ELSE Strip(SubSeq(raw, Len(L.day) + 1, Len(raw)))

\* The calendar date a well-formed Day value denotes, ErrDate when the value
\* is in neither format or names no day of the calendar.
Denoted(v) ==
    LET iso == DatePattern(v, 5, 8, "-")
        dmy == DatePattern(v, 3, 6, "/")
        y   == IF iso THEN Decimal(0, SubSeq(v, 1, 4)) ELSE Decimal(0, SubSeq(v, 7, 10))
        m   == IF iso THEN Decimal(0, SubSeq(v, 6, 7)) ELSE Decimal(0, SubSeq(v, 4, 5))
        d   == IF iso THEN Decimal(0, SubSeq(v, 9, 10)) ELSE Decimal(0, SubSeq(v, 1, 2))
    IN  IF (iso \/ dmy) /\ y >= 1 /\ m \in 1..12 /\ d >= 1 /\ d <= DaysInMonth(y, m)
        THEN Date(y, m, d)
        ELSE ErrDate

WellFormedDay(v) == DatePattern(v, 5, 8, "-") \/ DatePattern(v, 3, 6, "/")

(***************************************************************************)
(* C13: parse_full_report_block fails with the missing-Day failure when    *)
(* the block has no Day line or its Day line has no value, with the        *)
(* invalid-date-format failure when the Day value is in neither            *)
(* YYYY-MM-DD nor DD/MM/YYYY form; when the value is a well-formed date    *)
(* no failure concerns the Day and a returned record carries that date.    *)
(***************************************************************************)
C13_DayField ==
    ParseCall =>
        LET v == DayValue(req.text)
        IN  /\ v = <<>> => ret.parsed.err = "Missing Day"
            /\ (v # <<>> /\ ~WellFormedDay(v)) => ret.parsed.err = "Invalid date format"
            /\ Denoted(v) # ErrDate =>
                   /\ ret.parsed.err \notin {"Missing Day", "Invalid date format", "strptime"}
                   /\ ret.parsed.err = "" => ret.parsed.d.day = Denoted(v)

\* A complete block whose Day line reads "Day: 24/01/2026".
C13_Witness ==
    /\ ParseCall
    /\ DayValue(req.text) = <<"2", "4", "/", "0", "1", "/", "2", "0", "2", "6">>
    /\ ret.parsed.err = ""
    /\ ret.parsed.d.day = Date(2026, 1, 24)

\* The failures whose message names a field or a section of the block.
NamingFailures ==
    {"Missing Day", "Invalid date format", "Missing Lunch section",
     "Missing Dinner section", "Incomplete Lunch fields", "Incomplete Dinner fields"}

(***************************************************************************)
(* C14: every failure of parse_full_report_block is a validation failure   *)
(* that names the field or the section at fault.                           *)
(***************************************************************************)
C14_FailureNamesFault ==
    (ParseCall /\ ret.parsed.err # "") => ret.parsed.err \in NamingFailures

\* The label lists of the top-level amounts, as sets, and what stands in for
\* an absent line.
TopLabels ==
    [total_sales |-> {L.total_sales_day, L.total_sales}, visa |-> {L.visa},
     cash |-> {L.cash}, tips |-> {L.tips}]

\* The lines of the text that start with a label of field f.
LabelledLines(t, f) ==
    {i \in 1..Len(t) : \E l \in TopLabels[f] : StartsWith(Lower(Strip(t[i])), Lower(l))}

\* The amount on the topmost line of field f (all such lines carry a ':').
TopmostAmount(text, f) ==
    LET t    == splitlines(text)
        hits == LabelledLines(t, f)
        i    == CHOOSE i \in hits : \A k \in hits : i <= k
    IN  IF hits = {} THEN Num(0, 0) ELSE _num(Strip(AfterColon(Strip(t[i]))))

(***************************************************************************)
(* C15: for each of Total Sales Day, Visa, Cash and Tips the value taken   *)
(* is that of the first line, top to bottom, that starts with any label of *)
(* the field's list; a later matching line never overrides it, whatever    *)
(* the order of the labels in the list.                                    *)
(***************************************************************************)
C15_FirstLineWins ==
    (ParseCall /\ ret.parsed.err = "") =>
        \A f \in DOMAIN TopLabels : ret.parsed.d[f] = TopmostAmount(req.text, f)

\* "Total Sales: 100" above "Total Sales Day: 7199,50": the record holds 100,
\* though "Total Sales" is the second label of the list.
C15_Witness ==
    /\ ParseCall
    /\ ret.parsed.err = ""
    /\ LET t == splitlines(req.text)
       IN  /\ \E i, k \in LabelledLines(t, "total_sales") :
                  i < k /\ Strip(t[i]) = T.total /\ Strip(t[k]) = T.total_day
    /\ ret.parsed.d.total_sales = Num(100, 0)

\* The record's key of sub-field f of section S.
SubKey(S, f) == (IF S = "Lunch" THEN "lunch_" ELSE "dinner_") \o f

(***************************************************************************)
(* C16: the sub-field scan of a service section is bounded: in a returned  *)
(* record every Pax / Walk in / No show value of a section is the value of *)
(* a line of that section's own window (after its heading, at most nine    *)
(* lines on, before the next Lunch:/Dinner: heading), in either order of   *)
(* the two sections; no value comes from the other section's lines.        *)
(***************************************************************************)
C16_WindowBounded ==
    (ParseCall /\ ret.parsed.err = "") =>
        LET t == splitlines(req.text)
        IN  \A S \in {"Lunch", "Dinner"} : \A f \in DOMAIN SubLabels :
                LET own == SubLinesIn(t, Window(t, S), f)
                IN  /\ own # {}
                    /\ LET j == CHOOSE j \in own : \A k \in own : k <= j
                       IN  ret.parsed.d[SubKey(S, f)] = _int(AfterColon(Strip(t[j]))).v

\* Dinner written above Lunch, each with its own three sub-fields.
C16_Witness ==
    /\ ParseCall
    /\ ret.parsed.err = ""
    /\ LET t == splitlines(req.text)
       IN  /\ 0 < HeadingAt(t, "Dinner")
           /\ HeadingAt(t, "Dinner") < HeadingAt(t, "Lunch")
    /\ ret.parsed.d.lunch_pax = 50 /\ ret.parsed.d.lunch_walkins = 3
    /\ ret.parsed.d.lunch_noshows = 7
    /\ ret.parsed.d.dinner_pax = 106 /\ ret.parsed.d.dinner_walkins = 2
    /\ ret.parsed.d.dinner_noshows = 4

NumCall == ret.done /\ req.op = "_num"

(***************************************************************************)
(* C17: the numeric literal rule of _num, on literals that carry no        *)
(* currency sign: once the spaces are gone, a literal holding both '.' and *)
(* ',' is read with '.' as thousands separator and ',' as decimal          *)
(* separator, whichever comes first; a literal holding only ',' is read    *)
(* with ',' as decimal separator; any other literal is parsed as given.    *)
(***************************************************************************)
C17_SeparatorRule ==
    (NumCall /\ Count(req.s, "€") = 0 /\ RemoveSub(req.s, EuroLiteral) = req.s) =>
        LET a == Remove(req.s, {" "})
        IN  ret.num =
                IF Count(a, ".") > 0 /\ Count(a, ",") > 0
                THEN float(Replace(Remove(a, {"."}), ",", "."))
                ELSE IF Count(a, ",") > 0 THEN float(Replace(a, ",", "."))
                ELSE float(a)

TokCall == ret.done /\ req.op = "tokenize"

(***************************************************************************)
(* C18: no token that tokenize returns has length <= 3, is a stopword, or  *)
(* is a template-noise word (a section-heading word such as "staff" or     *)
(* "incidents"); every token is lower-case.                                *)
(***************************************************************************)
C18_TokensFiltered ==
    TokCall =>
        \A i \in 1..Len(ret.tokens) :
            LET w == ret.tokens[i]
            IN  /\ Len(w) > 3
                /\ w \notin STOPWORDS
                /\ w \notin {<<"s", "t", "a", "f", "f">>,
                              <<"i", "n", "c", "i", "d", "e", "n", "t", "s">>}
                /\ w = Lower(w)

(***************************************************************************)
(* C19: note entries are append-only: every step keeps each stored entry   *)
(* in place with its day, chat, user and text, and a later note of the     *)
(* same business day is added next to the earlier one.                     *)
(***************************************************************************)
C19_AppendOnly ==
    [][/\ Len(notes_entries') >= Len(notes_entries)
       /\ SubSeq(notes_entries', 1, Len(notes_entries)) = notes_entries]_vars

C19_Witness ==
    /\ Len(notes_entries) = 2
    /\ notes_entries[1].day = notes_entries[2].day
    /\ notes_entries[1].text # notes_entries[2].text

\* Table t2 is table t1 with the row of day k set to row and every other
\* day's row as it was.
WrittenAt(t1, t2, k, row) ==
    /\ DOMAIN t2 = DOMAIN t1 \cup {k}
    /\ t2[k] = row
    /\ \A d \in DOMAIN t1 \ {k} : t2[d] = t1[d]

\* The daily_stats row a sales command with these arguments writes.
ArgRow(sales, covers) ==
    [sales |-> float(sales).n * Pow10(2 - float(sales).scale), covers |-> int(covers).v]

\* The rows a pasted FULL_EXAMPLE block writes.
ExampleDailyRow == [sales |-> 719950, covers |-> 156]

\* The handler that has just run, when the step is a handler's.
RanNow(op, paths) == now' = now /\ hist'.op = op /\ hist'.path \in paths

(***************************************************************************)
(* C20: daily records are keyed by day with upsert semantics: a write of   *)
(* /setdaily, /edit or a full-report save leaves each table with one row   *)
(* for its day, holding the values just written, and every other day's row *)
(* as it was; a step that saves nothing leaves daily_stats alone; writing a *)
(* day's row again changes nothing.                                        *)
(***************************************************************************)
C20_Upsert ==
    [][/\ RanNow("setdaily", {"saved"}) =>
            WrittenAt(daily_stats, daily_stats', business_day_for(now),
                      ArgRow(req'.args[1], req'.args[2]))
       /\ RanNow("edit", {"saved"}) =>
            WrittenAt(daily_stats, daily_stats',
                      Date(req'.args[1][1], req'.args[1][2], req'.args[1][3]),
                      ArgRow(req'.args[2], req'.args[3]))
       /\ RanNow("on_text", {"paste", "full_auto"}) =>
            /\ WrittenAt(daily_stats, daily_stats', Date(2026, 1, 24), ExampleDailyRow)
            /\ WrittenAt(full_daily_stats, full_daily_stats', Date(2026, 1, 24),
                         FullRow(ExampleRecord))
       /\ (hist'.path \notin {"saved", "paste", "full_auto"} \/ now' # now) =>
            daily_stats' = daily_stats
       /\ \A d \in DOMAIN daily_stats :
            upsert_daily(d, daily_stats[d].sales, daily_stats[d].covers) = daily_stats
       /\ \A d \in DOMAIN daily_stats' :
            WrittenAt(daily_stats', daily_stats', d, daily_stats'[d])]_vars

\* /edit has just overwritten the row a full report saved for 24 January,
\* next to the row of another day.
C20_Witness ==
    /\ hist.op = "edit" /\ hist.path = "saved"
    /\ req.op = "edit" /\ req.args[1] = <<2026, 1, 24>>
    /\ Date(2026, 1, 24) \in DOMAIN full_daily_stats
    /\ daily_stats[Date(2026, 1, 24)] = ArgRow(req.args[2], req.args[3])
    /\ daily_stats[Date(2026, 1, 24)] # ExampleDailyRow
    /\ Cardinality(DOMAIN daily_stats) >= 2

\* The day of the report a saving step has just stored: the guided entry's
\* accumulated day for /confirmfull, the block's day for a pasted report.
SavedDay ==
    IF hist'.op = "confirmfull"
    THEN guided_full_map[Key(hist'.chat, hist'.user)].data["day"]
    ELSE Date(2026, 1, 24)

(***************************************************************************)
(* C21: whenever a full daily report for day D is saved (pasted, detected  *)
(* or confirmed), the summary record written for D in the same step has    *)
(* covers = lunch_pax + dinner_pax and sales = total_sales of that report. *)
(***************************************************************************)
C21_SummaryDerived ==
    [][(hist'.op \in {"confirmfull", "on_text"} /\ hist'.path \in {"saved", "paste", "full_auto"}) =>
          LET D == SavedDay
          IN  /\ D \in DOMAIN full_daily_stats' /\ D \in DOMAIN daily_stats'
              /\ daily_stats'[D].covers =
                     full_daily_stats'[D]["lunch_pax"] + full_daily_stats'[D]["dinner_pax"]
              /\ daily_stats'[D].sales = full_daily_stats'[D]["total_sales"]]_vars

\* /confirmfull has just saved a guided report with guests at both services.
C21_Witness ==
    /\ hist.op = "confirmfull" /\ hist.path = "saved"
    /\ Date(2026, 1, 24) \in DOMAIN full_daily_stats
    /\ full_daily_stats[Date(2026, 1, 24)]["lunch_pax"] > 0
    /\ full_daily_stats[Date(2026, 1, 24)]["dinner_pax"] > 0
    /\ daily_stats[Date(2026, 1, 24)].covers =
           full_daily_stats[Date(2026, 1, 24)]["lunch_pax"]
           + full_daily_stats[Date(2026, 1, 24)]["dinner_pax"]

(***************************************************************************)
(* C22: a pending /report entry holds its target business day: the note    *)
(* text its user sends while the entry is pending is stored under the      *)
(* business day captured when /report was issued, also after the cutoff    *)
(* hour has passed, and whichever path of on_text stores it.               *)
(***************************************************************************)
C22_ReportDayHeld ==
    [][(/\ hist'.op = "on_text"
        /\ Len(notes_entries') = Len(notes_entries) + 1
        /\ mode_on(report_mode_map, hist'.chat, hist'.user)) =>
          LET held == get_mode(report_mode_map, hist'.chat, hist'.user).day
          IN  notes_entries'[Len(notes_entries')].day = Date(held[1], held[2], held[3])]_vars

\* The pending maps by name.
PendingMap(name) ==
    CASE name = "report" -> report_mode_map
      [] name = "full" -> full_mode_map
      [] name = "guided" -> guided_full_map

\* The mode whose entry a text message's path read.
ConsumedMode(path) ==
    CASE path \in {"report"} -> "report"
      [] path \in {"paste", "paste_unparsed", "paste_db_error"} -> "full"
      [] path \in {"guided", "guided_retry", "guided_awaiting"} -> "guided"
      [] OTHER -> "none"

(***************************************************************************)
(* C23: pending input is scoped to one (chat, user) pair: a handler acting *)
(* for one pair leaves the entries of every other pair as they were, each  *)
(* pair has an entry in a mode exactly when it opened one and has not      *)
(* closed it (so at most one per pair and mode), and a text message is     *)
(* consumed only by an entry its own pair created.                         *)
(***************************************************************************)
C23_PairScoped ==
    [][\A name \in {"report", "full", "guided"} :
          /\ \A q \in Pairs \ {<<hist'.chat, hist'.user>>} :
                /\ Key(q[1], q[2]) \in DOMAIN PendingMap(name)
                      <=> Key(q[1], q[2]) \in DOMAIN PendingMap(name)'
                /\ Key(q[1], q[2]) \in DOMAIN PendingMap(name)
                      => PendingMap(name)'[Key(q[1], q[2])] = PendingMap(name)[Key(q[1], q[2])]
          /\ \A q \in Pairs :
                Key(q[1], q[2]) \in DOMAIN PendingMap(name)' <=> <<name, q[1], q[2]>> \in DOMAIN set_at'
          /\ Cardinality(DOMAIN PendingMap(name)')
                = Cardinality({q \in Pairs : <<name, q[1], q[2]>> \in DOMAIN set_at'})
          /\ (hist'.op = "on_text" /\ ConsumedMode(hist'.path) = name) =>
                <<name, hist'.chat, hist'.user>> \in DOMAIN set_at]_vars

\* The text of (1, 12) has just been stored through its /report entry while
\* the /report entry of (11, 2) is still pending.
C23_Witness ==
    /\ hist.op = "on_text" /\ hist.path = "report" /\ hist.chat = 1 /\ hist.user = 12
    /\ Key(1, 12) \notin DOMAIN report_mode_map
    /\ Key(11, 2) \in DOMAIN report_mode_map
    /\ Len(notes_entries) >= 1
    /\ notes_entries[Len(notes_entries)].chat_id = 1
    /\ notes_entries[Len(notes_entries)].user_id = 12

\* The words that head each of the four sections of a notes report.
SectionWords ==
    <<{<<"i", "n", "c", "i", "d", "e", "n", "t", "s">>, <<"i", "n", "c", "i", "d", "e", "n", "t", "e", "s">>, <<"i", "n", "c", "i", "d", "e", "n", "c", "i", "a", "s">>},
      {<<"s", "t", "a", "f", "f">>, <<"p", "e", "r", "s", "o", "n", "a", "l">>, <<"e", "q", "u", "i", "p", "o">>},
      {<<"s", "o", "l", "d", " ", "o", "u", "t">>, <<"a", "g", "o", "t", "a", "d", "o">>},
      {<<"c", "o", "m", "p", "l", "a", "i", "n", "t", "s">>, <<"q", "u", "e", "j", "a", "s">>, <<"r", "e", "c", "l", "a", "m", "a", "c", "i", "o", "n", "e", "s">>}>>

\* Section k occurs in the text as a heading followed by ':'.
HeadingWithColon(text, k) ==
    \E i \in DOMAIN text, w \in SectionWords[k] : StartsWith(Lower(text[i]), w \o <<":">>)

(***************************************************************************)
(* C24: looks_like_notes_report returns true only when at least three of   *)
(* the four sections occur in the text as a heading followed by ':'; a     *)
(* section word without ':' is no hit.                                     *)
(***************************************************************************)
C24_ThreeHeadings ==
    (req.op = "looks_like_notes_report" /\ ret.done /\ ret.notes) =>
        Cardinality({k \in 1..4 : HeadingWithColon(req.text, k)}) >= 3

\* Both kinds of full-report entry are absent for the pair.
NoFullEntry(c, u) ==
    Key(c, u) \notin DOMAIN full_mode_map /\ Key(c, u) \notin DOMAIN guided_full_map

(***************************************************************************)
(* C25: the paste-mode entry and the guided-mode entry of a pair are never *)
(* both present: an accepted /setfull leaves the paste entry alone, an     *)
(* accepted /setfullguided leaves the guided entry alone, and a /cancelfull *)
(* that passes the access check leaves neither, with the stored records    *)
(* unchanged.                                                              *)
(***************************************************************************)
C25_ModesExclusive ==
    [][LET c == hist'.chat
           u == hist'.user
       IN  /\ ~(Key(c, u) \in DOMAIN full_mode_map' /\ Key(c, u) \in DOMAIN guided_full_map')
           /\ (hist'.op = "setfull" /\ allow_full_cmd(c, u)) =>
                  (Key(c, u) \in DOMAIN full_mode_map' /\ Key(c, u) \notin DOMAIN guided_full_map')
           /\ (hist'.op = "setfullguided" /\ allow_full_cmd(c, u)) =>
                  (Key(c, u) \in DOMAIN guided_full_map' /\ Key(c, u) \notin DOMAIN full_mode_map')
           /\ (hist'.op = "cancelfull" /\ allow_full_cmd(c, u)) =>
                  /\ Key(c, u) \notin DOMAIN full_mode_map'
                  /\ Key(c, u) \notin DOMAIN guided_full_map'
                  /\ UNCHANGED <<daily_stats, full_daily_stats, notes_entries>>]_vars

\* /cancelfull has just cleared the modes of a pair whose report is stored.
C25_Witness ==
    /\ hist.op = "cancelfull" /\ hist.path = "cleared"
    /\ NoFullEntry(hist.chat, hist.user)
    /\ DOMAIN full_daily_stats # {}
    /\ DOMAIN daily_stats # {}

\* C25 as stated: every /cancelfull leaves neither entry.
C25_CancelAlwaysClears ==
    [][hist'.op = "cancelfull" =>
          /\ Key(hist'.chat, hist'.user) \notin DOMAIN full_mode_map'
          /\ Key(hist'.chat, hist'.user) \notin DOMAIN guided_full_map'
          /\ UNCHANGED <<daily_stats, full_daily_stats, notes_entries>>]_vars

\* The guided entry of the pair whose handler ran last, before and after.
GuidedBefore == guided_full_map[Key(hist'.chat, hist'.user)]

GuidedAfter == guided_full_map'[Key(hist'.chat, hist'.user)]

(***************************************************************************)
(* C26: in every guided entry 0 <= step <= 13, the accumulator holds       *)
(* exactly the first `step` fields of GUIDED_STEPS, and awaiting_confirm   *)
(* holds iff step = 13.  An answer that parses advances step by one and    *)
(* adds the field asked for, an answer that fails to parse leaves the      *)
(* entry as it was, and a text received while awaiting_confirm leaves the  *)
(* entry as it was; when the guided flow handles that text the stored      *)
(* records are unchanged too.                                              *)
(***************************************************************************)
C26_GuidedInvariant ==
    [][LET k == Key(hist'.chat, hist'.user)
       IN  /\ \A q \in DOMAIN guided_full_map' :
                  LET st == guided_full_map'[q]
                  IN  /\ st.step \in 0..13
                      /\ DOMAIN st.data = {GUIDED_STEPS[i] : i \in 1..st.step}
                      /\ st.awaiting_confirm <=> st.step = 13
           /\ (hist'.op = "on_text" /\ k \in DOMAIN guided_full_map) =>
                  /\ hist'.path = "guided" =>
                        /\ k \in DOMAIN guided_full_map'
                        /\ GuidedAfter.step = GuidedBefore.step + 1
                        /\ DOMAIN GuidedAfter.data =
                              DOMAIN GuidedBefore.data \cup {GUIDED_STEPS[GuidedAfter.step]}
                        /\ \A f \in DOMAIN GuidedBefore.data :
                              GuidedAfter.data[f] = GuidedBefore.data[f]
                  /\ hist'.path = "guided_retry" => UNCHANGED guided_full_map
                  /\ GuidedBefore.awaiting_confirm => UNCHANGED guided_full_map
                  /\ hist'.path = "guided_awaiting" =>
                        UNCHANGED <<guided_full_map, full_mode_map, report_mode_map,
                                    daily_stats, full_daily_stats, notes_entries>>]_vars

\* A text has just been received by a completed guided entry.
C26_Witness ==
    /\ hist.op = "on_text" /\ hist.path = "guided_awaiting"
    /\ Key(hist.chat, hist.user) \in DOMAIN guided_full_map
    /\ guided_full_map[Key(hist.chat, hist.user)].step = 13
    /\ guided_full_map[Key(hist.chat, hist.user)].awaiting_confirm
    /\ Cardinality(DOMAIN guided_full_map[Key(hist.chat, hist.user)].data) = 13

\* C26 as stated: a text received while awaiting_confirm changes nothing.
C26_AwaitingChangesNothing ==
    [][(/\ hist'.op = "on_text"
        /\ Key(hist'.chat, hist'.user) \in DOMAIN guided_full_map
        /\ GuidedBefore.awaiting_confirm) =>
          UNCHANGED <<guided_full_map, full_mode_map, report_mode_map,
                      daily_stats, full_daily_stats, notes_entries>>]_vars

\* The step stored the thirteen values of accumulator d and nothing else,
\* and removed the guided entry of the pair.
StoredFromPreview(d, k) ==
    /\ full_daily_stats' = [D \in DOMAIN full_daily_stats \cup {d["day"]} |->
                               IF D = d["day"] THEN [f \in FullFields |-> d[f]]
                               ELSE full_daily_stats[D]]
    /\ DOMAIN daily_stats' = DOMAIN daily_stats \cup {d["day"]}
    /\ \A D \in DOMAIN daily_stats : D # d["day"] => daily_stats'[D] = daily_stats[D]
    /\ k \notin DOMAIN guided_full_map'
    /\ UNCHANGED <<notes_entries, full_mode_map, report_mode_map>>

AutoPaths == {"notes_auto", "full_auto", "full_auto_unparsed", "full_auto_db_error"}

(***************************************************************************)
(* C28: a text message is consumed by at most one flow, in the priority    *)
(* notes auto-detect, full-report auto-detect, guided flow, paste mode,    *)
(* /report mode, and never causes both a record write and a note insert.   *)
(* When a pair has both paste mode and report mode pending, the report     *)
(* entry stays pending; a text that neither auto-detection takes is        *)
(* handled by paste mode and stores no note.                               *)
(***************************************************************************)
C28_OneFlow ==
    [][hist'.op = "on_text" =>
          LET c == hist'.chat
              u == hist'.user
              path == hist'.path
              guided == mode_on(guided_full_map, c, u)
              paste == mode_on(full_mode_map, c, u)
              rep == mode_on(report_mode_map, c, u)
          IN  /\ ConsumedMode(path) = "guided" => guided
              /\ ConsumedMode(path) = "full" => paste /\ ~guided
              /\ ConsumedMode(path) = "report" => rep /\ ~guided /\ ~paste
              /\ path \in AutoPaths =>
                    /\ get_chat_role(c) \in {ROLE_OPS_ADMIN, ROLE_MANAGER_INPUT}
                    /\ UNCHANGED <<guided_full_map, full_mode_map, report_mode_map>>
              /\ Cardinality({name \in {"report", "full", "guided"} :
                                 PendingMap(name)' # PendingMap(name)}) <= 1
              /\ ~(/\ notes_entries' # notes_entries
                    /\ (daily_stats' # daily_stats \/ full_daily_stats' # full_daily_stats))
              /\ (paste /\ rep) =>
                    /\ UNCHANGED report_mode_map
                    /\ notes_entries' # notes_entries => path = "notes_auto"
                    /\ path \notin AutoPaths \cup {"db_error"} => ConsumedMode(path) = "full"]_vars

\* A pasted report has just been saved while the /report entry of the same
\* pair is pending, and no note is stored.
C28_Witness ==
    /\ hist.op = "on_text" /\ hist.path = "paste"
    /\ mode_on(report_mode_map, hist.chat, hist.user)
    /\ ~mode_on(full_mode_map, hist.chat, hist.user)
    /\ notes_entries = <<>>
    /\ DOMAIN full_daily_stats # {}

\* C28 as stated: with both paste mode and report mode pending, every text
\* is handled by paste mode, and no note is stored.
C28_PasteOnlyWhenBoth ==
    [][(/\ hist'.op = "on_text"
        /\ mode_on(full_mode_map, hist'.chat, hist'.user)
        /\ mode_on(report_mode_map, hist'.chat, hist'.user)) =>
          /\ ConsumedMode(hist'.path) = "full"
          /\ UNCHANGED <<report_mode_map, notes_entries>>]_vars

(***************************************************************************)
(* C29: authorization holds when input is stored: with access mode         *)
(* RESTRICTED and a non-empty allowlist, a text message from a user        *)
(* outside the allowlist causes a note insert or a record write only if    *)
(* the chat's role, when the message is handled, is OPS_ADMIN or           *)
(* MANAGER_INPUT.                                                          *)
(***************************************************************************)
C29_AuthorizedWhenStored ==
    [][(/\ hist'.op = "on_text"
        /\ ACCESS_MODE = "RESTRICTED" /\ ALLOWED_USER_IDS # {}
        /\ hist'.user \notin ALLOWED_USER_IDS
        /\ \/ notes_entries' # notes_entries
           \/ daily_stats' # daily_stats
           \/ full_daily_stats' # full_daily_stats) =>
          get_chat_role(hist'.chat) \in {ROLE_OPS_ADMIN, ROLE_MANAGER_INPUT}]_vars

(***************************************************************************)
(* C30: once an admin has run /removeowners in a chat, the chat is not     *)
(* among the chats owners_silent_chat_ids() returns, and a scheduled job   *)
(* that runs next does not post to it.                                     *)
(***************************************************************************)
C30_RemovedNotPosted ==
    [][(hist.op = "removeowners" /\ hist.path = "removed") =>
          /\ \A i \in DOMAIN owners_silent_chat_ids : owners_silent_chat_ids[i] # hist.chat
          /\ hist'.op \in {"send_daily_post_to_owners", "send_weekly_digest"} =>
                \A i \in DOMAIN ret'.chats : ret'.chats[i] # hist.chat]_vars

====
